---- MODULE Spec2Model ----
(***************************************************************************)
(* Scene history, time reconciliation, context-window assembly and the     *)
(* turn-taking loop of talemate (src/talemate/tale_mate.py,                *)
(* src/talemate/scene_message.py).                                         *)
(***************************************************************************)
EXTENDS Integers, Sequences, FiniteSets, TLC

(***************************************************************************)
(* Bounds of the exploration.                                              *)
(***************************************************************************)
\* message ids issued by get_message_id in one behaviour
MaxId == 4
\* messages handed to one push_history call
MaxBatch == 2

VARIABLES
    history,            \* Scene.history: sequence of messages
    archived_history,   \* Scene.archived_history: sequence of archive entries
    ts,                 \* Scene.ts: the scene clock, an ISO-8601 duration string
    message_id,         \* scene_message._message_id: the global id counter
    op,                 \* name of the operation that ran last ("" initially)
    raised,             \* exception that escaped the last operation ("" if none)
    pre,                \* history and clock the last operation started from
    calls,              \* emits and collaborator calls of the last operation, in order
    lastDirector,       \* per source: id of the DirectorMessage appended last
    rerun_pc,           \* Scene.rerun: "idle", "generate" (awaiting the regeneration),
                        \* "reinforce" (lines 1815-1816)
    rerun_message,      \* Scene.rerun: the message being rerun
    popped_reinforcement_messages,  \* Scene.rerun: the popped trailing messages
    generated,          \* number of messages the awaited regeneration appended
    layered_history,    \* Scene.layered_history: layers of summary entries
    intro,              \* Scene.intro
    ctx,                \* arguments and result of the last context_history call
    loop_pc,            \* Scene.start / _run_game_loop: "idle" (not running), "while"
                        \* (line 2370), "try" (line 2374), "actor" (line 2386), "talk"
                        \* (awaiting actor.talk, line 2433), "returned", "raised",
                        \* "exited" (start left its loop), "crashed" (start raised)
    actor_idx,          \* _run_game_loop: position of the for loop in Scene.actors
    skip_to_player,     \* _run_game_loop: local flag
    signal_game_loop,   \* _run_game_loop: local flag
    turn_start,         \* _run_game_loop: local flag
    next_actor,         \* Scene.next_actor ("" for None)
    cancel_requested,   \* Scene.cancel_requested
    active,             \* Scene.active
    active_actor,       \* Scene.active_actor ("" for None)
    auto_progress,      \* Scene.auto_progress (a configuration value)
    propagated,         \* exception that left _run_game_loop ("" if none)
    caught,             \* exception the last awaited talk ended with ("" if it returned)
    before,             \* next_actor, skip_to_player and cancel_requested at that raise
    ret,                \* what the last history query or removal returned
    sent,               \* signals the last push_history sent, in order, each with
                        \* the history its receivers find
    files,              \* the save directory: the document stored under each name
    restore_from,       \* Scene.restore_from ("" for None)
    saved_scene,        \* per file name: the scene the document was serialized from
    first_loop,         \* Scene.start: local flag, the loop has not run to its end yet
    rag_cache,          \* Scene.rag_cache: the entry under the agent's cache key
    rag_stored          \* the history as it was when rag_set_cache last stored

storeVars == <<history, archived_history, ts, message_id>>
traceVars == <<op, raised, pre, calls, lastDirector>>
rerunVars == <<rerun_pc, rerun_message, popped_reinforcement_messages, generated>>
ctxVars == <<layered_history, intro, ctx>>
saveVars == <<files, restore_from, saved_scene>>
ragVars == <<rag_cache, rag_stored>>
loopVars == <<loop_pc, actor_idx, skip_to_player, signal_game_loop, turn_start, next_actor,
              cancel_requested, active, active_actor, auto_progress, propagated, caught,
              before, first_loop>>
\* what push_history and rerun never touch
restVars == <<ctxVars, loopVars, ret, sent, saveVars, ragVars>>
vars == <<storeVars, traceVars, rerunVars, ctxVars, loopVars, ret, sent, saveVars, ragVars>>

(***************************************************************************)
(* ISO-8601 durations.  Scene.ts, TimePassageMessage.ts and archive ts     *)
(* are strings; isodate parses them to a duration and formats a duration   *)
(* back.  Durations are whole days here.                                   *)
(***************************************************************************)
\* largest duration (in days) the parser has to recognise
MaxDays == 24

\* isodate.duration_isoformat of a duration of n days: "P0D", "P1D", ...
duration_isoformat(n) == "P" \o ToString(n) \o "D"

\* a string isodate.parse_duration rejects
Malformed == "1 day"

\* the strings isodate.parse_duration accepts
CanParse(s) == s = "PT0S" \/ \E n \in 0..MaxDays : duration_isoformat(n) = s

\* isodate.parse_duration: the duration in days ("PT0S" is the zero duration)
parse_duration(s) ==
    IF s = "PT0S" THEN 0
    ELSE CHOOSE n \in 0..MaxDays : duration_isoformat(n) = s

\* util.iso8601_add: empty operand gives "PT0S", else parse, add, format
iso8601_add(a, b) ==
    IF a = "" \/ b = "" THEN "PT0S"
    ELSE duration_isoformat(parse_duration(a) + parse_duration(b))

advance_time_overwrites(clock, d) == duration_isoformat(parse_duration(d))

\* Scene.advance_time: the new value of Scene.ts
advance_time(clock, d) ==
    duration_isoformat(parse_duration(clock) + parse_duration(d))

(***************************************************************************)
(* Messages (scene_message.py).  One record shape for all variants; a      *)
(* field a variant does not have holds "".  `name` is the text before the  *)
(* first ":" of the content, `text` the rest.                              *)
(***************************************************************************)
SceneMessage(typ, name, text, source) ==
    [id |-> 0, typ |-> typ, source |-> source, name |-> name, text |-> text,
     hidden |-> FALSE, from_choice |-> "", ts |-> "", action |-> "", meta |-> ""]

CharacterMessage(name, text, source, from_choice) ==
    [SceneMessage("character", name, text, source) EXCEPT !.from_choice = from_choice]

NarratorMessage(text, source) == SceneMessage("narrator", "", text, source)

DirectorMessage(name, text, source, action) ==
    [SceneMessage("director", name, text, source) EXCEPT !.action = action]

TimePassageMessage(text, d) ==
    [SceneMessage("time", "", text, "manual") EXCEPT !.ts = d]

ReinforcementMessage(text, source) == SceneMessage("reinforcement", "", text, source)

\* meta: "agent.function" of the call that produced the message, "" when not recorded
ContextInvestigationMessage(text, meta) ==
    [SceneMessage("context_investigation", "", text, "ai") EXCEPT !.meta = meta]

\* no message (None)
NoMessage == SceneMessage("", "", "", "")

\* nothing returned yet
NoReturn == [value |-> <<>>, none |-> TRUE]

\* get_message_id applied to each message of a batch, in order
RECURSIVE WithIds(_, _)
WithIds(msgs, counter) ==
    IF msgs = <<>> THEN <<>>
    ELSE <<[Head(msgs) EXCEPT !.id = counter + 1]>> \o WithIds(Tail(msgs), counter + 1)

Range(s) == {s[i] : i \in 1..Len(s)}

\* list.pop(idx)
RemoveAt(s, i) == SubSeq(s, 1, i - 1) \o SubSeq(s, i + 1, Len(s))

(***************************************************************************)
(* Scene.push_history                                                      *)
(***************************************************************************)
\* faulty variant: the backward scan never removes the previous Director message
EvictDirectorNever(h, source) == h

\* lines 1074-1080: remove the last Director message with this source
EvictDirector(h, source) ==
    LET hits == {i \in 1..Len(h) : h[i].typ = "director" /\ h[i].source = source}
    IN  IF hits = {} THEN h
        ELSE RemoveAt(h, CHOOSE i \in hits : \A j \in hits : j <= i)

\* lines 1072-1083: the loop over the batch; stops where advance_time raises
RECURSIVE PushScan(_, _, _)
PushScan(h, clock, msgs) ==
    IF msgs = <<>> THEN [history |-> h, ts |-> clock, raised |-> ""]
    ELSE LET m == Head(msgs) IN
         IF m.typ = "director"
         THEN PushScan(EvictDirector(h, m.source), clock, Tail(msgs))
         ELSE IF m.typ = "time"
         THEN IF CanParse(clock) /\ CanParse(m.ts)
              THEN PushScan(h, advance_time(clock, m.ts), Tail(msgs))
              ELSE [history |-> h, ts |-> clock, raised |-> "ISO8601Error"]
         ELSE PushScan(h, clock, Tail(msgs))

\* the ids of a list of messages
IdsOf(msgs) == [i \in 1..Len(msgs) |-> msgs[i].id]

\* faulty variant: each message is announced while the batch is being appended
NewMessageEventsEager(h, msgs) ==
    [i \in 1..Len(msgs) |->
        [signal |-> "game_loop_new_message", messages |-> <<msgs[i].id>>,
         history |-> IdsOf(SubSeq(h, 1, Len(h) - Len(msgs) + i))]]

\* lines 1094-1102: one game_loop_new_message per message of the batch, each
\* run to completion before the next; h is the history after the extend
NewMessageEvents(h, msgs) ==
    [i \in 1..Len(msgs) |->
        [signal |-> "game_loop_new_message", messages |-> <<msgs[i].id>>,
         history |-> IdsOf(h)]]

\* lines 1085-1102: history_add for the batch, then the per-message signals
PushSignals(h, msgs) ==
    <<[signal |-> "history_add", messages |-> IdsOf(msgs), history |-> IdsOf(h)]>>
        \o NewMessageEvents(h, msgs)

\* lines 1060-1102: the history and clock push_history leaves behind and the
\* signals it sent; nothing is appended or sent when advance_time raises
push_history(h, clock, msgs) ==
    LET r == PushScan(h, clock, msgs)
    IN  IF r.raised = ""
        THEN [history |-> r.history \o msgs, ts |-> r.ts, raised |-> "",
              sent |-> PushSignals(r.history \o msgs, msgs)]
        ELSE [history |-> r.history, ts |-> r.ts, raised |-> r.raised, sent |-> <<>>]

\* the Director sources of a batch, each mapped to the id appended last
RECURSIVE NoteDirectors(_, _)
NoteDirectors(last, msgs) ==
    IF msgs = <<>> THEN last
    ELSE LET m == Head(msgs) IN
         NoteDirectors(IF m.typ = "director"
                       THEN [s \in DOMAIN last \cup {m.source} |->
                                IF s = m.source THEN m.id ELSE last[s]]
                       ELSE last,
                       Tail(msgs))

\* a caller builds the messages (ids from get_message_id) and pushes them
PushHistory(templates) ==
    /\ rerun_pc = "idle"
    /\ message_id + Len(templates) <= MaxId
    /\ LET msgs == WithIds(templates, message_id)
           r == push_history(history, ts, msgs)
       IN  /\ history' = r.history
           /\ ts' = r.ts
           /\ raised' = r.raised
           /\ sent' = r.sent
           /\ lastDirector' = IF r.raised = "" THEN NoteDirectors(lastDirector, msgs)
                              ELSE lastDirector
    /\ message_id' = message_id + Len(templates)
    /\ op' = "push_history"
    /\ pre' = [history |-> history, ts |-> ts]
    /\ calls' = <<>>
    /\ UNCHANGED <<archived_history, rerunVars>>
    /\ UNCHANGED <<ctxVars, loopVars, ret, saveVars, ragVars>>

\* lines 1085-1092: a receiver of history_add raises.  The batch is in history
\* by then; blinker's send hands the exception on, push_history has no handler
\* for it, and the loop of lines 1094-1102 is not reached
PushHistoryReceiverRaises(templates) ==
    /\ rerun_pc = "idle"
    /\ message_id + Len(templates) <= MaxId
    /\ LET msgs == WithIds(templates, message_id)
           r == push_history(history, ts, msgs)
       IN  /\ r.raised = ""
           /\ history' = r.history
           /\ ts' = r.ts
           /\ sent' = <<Head(r.sent)>>
           /\ lastDirector' = NoteDirectors(lastDirector, msgs)
    /\ raised' = "ReceiverError"
    /\ message_id' = message_id + Len(templates)
    /\ op' = "push_history"
    /\ pre' = [history |-> history, ts |-> ts, receiver |-> "history_add"]
    /\ calls' = <<>>
    /\ UNCHANGED <<archived_history, rerunVars>>
    /\ UNCHANGED <<ctxVars, loopVars, ret, saveVars, ragVars>>

\* scene_message.py lines 26-28: reset_message_id puts the counter back to 0
ResetMessageId ==
    /\ rerun_pc = "idle"
    /\ message_id' = 0
    /\ op' = "reset_message_id"
    /\ raised' = ""
    /\ pre' = [history |-> history, ts |-> ts]
    /\ calls' = <<>>
    /\ UNCHANGED <<history, archived_history, ts, lastDirector, rerunVars>>
    /\ UNCHANGED restVars

\* batches of one to MaxBatch messages over a set of message values
Batches(S) == UNION {[1..n -> S] : n \in 1..MaxBatch}

(***************************************************************************)
(* The cast: Scene.actors, one Player actor and the NPC actors.            *)
(***************************************************************************)
PlayerCharacter == "Elara"
NpcCharacters == {"Bob"}

\* Scene.get_character: the character of that name, "" for None
get_character(name) ==
    IF name \in {PlayerCharacter} \cup NpcCharacters THEN name ELSE ""

\* Character.is_player
is_player(c) == c = PlayerCharacter

(***************************************************************************)
(* Scene.rerun.  RerunBegin runs rerun up to its first await, Generation   *)
(* is the awaited regeneration, Reinforce one pass of the final loop.      *)
(***************************************************************************)
Front(s) == SubSeq(s, 1, Len(s) - 1)
Last(s) == s[Len(s)]

\* lines 1784-1788: pop the trailing ReinforcementMessages; history[-1] of an
\* emptied history raises IndexError
RECURSIVE PopReinforcements(_, _)
PopReinforcements(h, popped) ==
    IF h = <<>> THEN [history |-> h, popped |-> popped, raised |-> "IndexError"]
    ELSE IF Last(h).typ = "reinforcement"
         THEN PopReinforcements(Front(h), Append(popped, Last(h)))
         ELSE [history |-> h, popped |-> popped, raised |-> ""]

\* faulty variant: the message being rerun stays in history
RerunPopKeep(h) == h

\* lines 1801, 1804, 1807, 1810: self.history.pop()
RerunPop(h) == Front(h)

\* the text before the first ":" of a narrator source
NarratorKind(source) ==
    IF source \in {"progress_story", "progress_story:north"} THEN "progress_story"
    ELSE source

\* the regeneration rerun awaits for message m ("" when it awaits none)
Awaited(m) ==
    IF m.typ = "character"
    THEN IF is_player(get_character(m.name)) THEN "generate_from_choice" ELSE "talk"
    ELSE IF m.typ = "narrator"
    THEN IF NarratorKind(m.source) = "__director__" THEN "direct_scene" ELSE "narrate"
    ELSE IF m.typ = "context_investigation" THEN "investigate"
    ELSE ""

\* lines 1792-1813 with the part of _rerun_*_message before its await.  pc is
\* "generate" when rerun now awaits a regeneration, "reinforce" when the branch
\* returned into the loop of lines 1815-1816, "idle" when rerun is over
rerun_dispatch(h, popped, m) ==
    LET over(hh, exc, cs) ==
            [history |-> hh, popped |-> popped, message |-> m, pc |-> "idle",
             raised |-> exc, calls |-> cs]
        back(hh, cs) ==
            [history |-> hh, popped |-> popped, message |-> m,
             pc |-> IF popped = <<>> THEN "idle" ELSE "reinforce",
             raised |-> "", calls |-> cs]
        await(hh, cs) ==
            [history |-> hh, popped |-> popped, message |-> m, pc |-> "generate",
             raised |-> "", calls |-> cs]
        removed == <<"emit", "remove_message">>
    IN
    \* line 1792: only CharacterMessage has a from_choice attribute
    IF m.source = "player" /\ m.typ # "character" THEN over(h, "AttributeError", <<>>)
    \* lines 1792-1794: log.warning and return
    ELSE IF m.source = "player" /\ m.from_choice = "" THEN over(h, "", <<>>)
    ELSE IF m.typ = "character" THEN
        \* lines 1801-1802, 1899-1920
        LET c == get_character(m.name) IN
        IF c = "" THEN over(RerunPop(h), "AttributeError", <<>>)
        ELSE IF is_player(c)
        THEN IF m.from_choice # ""
             THEN await(RerunPop(h), <<removed, <<"generate_from_choice", c>>>>)
             ELSE back(RerunPop(h),
                       <<<<"emit", "system: Cannot rerun player's message">>>>)
        ELSE await(RerunPop(h), <<removed, <<"talk", c>>>>)
    ELSE IF m.typ = "narrator" THEN
        \* lines 1804-1805, 1818-1858
        IF NarratorKind(m.source) \in {"progress_story", "__director__"}
        THEN await(RerunPop(h), <<removed, <<Awaited(m), m.source>>>>)
        ELSE back(RerunPop(h), <<removed>>)
    ELSE IF m.typ = "director" THEN
        \* lines 1807-1808, 1868-1886: direct_scene(character) lacks the
        \* required prompt argument
        LET c == IF m.source = "" THEN CHOOSE n \in NpcCharacters : TRUE
                 ELSE get_character(m.source) IN
        IF c = "" THEN back(RerunPop(h), <<removed>>)
        ELSE over(RerunPop(h), "TypeError", <<removed>>)
    ELSE IF m.typ = "context_investigation" THEN
        \* lines 1810-1811, 1938-1967
        IF m.meta = "" THEN back(RerunPop(h), <<removed>>)
        ELSE await(RerunPop(h), <<removed, <<"investigate", m.meta>>>>)
    \* lines 1812-1813
    ELSE over(h, "", <<>>)

\* lines 1771-1813 up to the first await
rerun_begin(h) ==
    IF h = <<>>
    THEN [history |-> h, popped |-> <<>>, message |-> NoMessage, pc |-> "idle",
          raised |-> "", calls |-> <<>>]
    ELSE LET p == PopReinforcements(h, <<>>) IN
         IF p.raised # ""
         THEN [history |-> p.history, popped |-> p.popped, message |-> NoMessage,
               pc |-> "idle", raised |-> p.raised, calls |-> <<>>]
         ELSE rerun_dispatch(p.history, p.popped, Last(p.history))

\* regenerated messages rerun may need ids for, beyond MaxId
MaxRegenerated == 3

TrailingReinforcements(h) ==
    Cardinality({i \in 1..Len(h) : \A j \in i..Len(h) : h[j].typ = "reinforcement"})

RerunBegin ==
    /\ rerun_pc = "idle"
    /\ message_id + 1 + TrailingReinforcements(history) <= MaxId + MaxRegenerated
    /\ LET r == rerun_begin(history)
       IN  /\ history' = r.history
           /\ popped_reinforcement_messages' = r.popped
           /\ rerun_message' = r.message
           /\ rerun_pc' = r.pc
           /\ raised' = r.raised
           /\ calls' = r.calls
    /\ op' = "rerun"
    /\ pre' = [history |-> history, ts |-> ts]
    /\ generated' = 0
    /\ UNCHANGED <<archived_history, ts, message_id, lastDirector>>
    /\ UNCHANGED restVars

\* the message a regeneration appends
Regenerated(m) ==
    IF Awaited(m) = "talk" THEN CharacterMessage(m.name, "again", "ai", "")
    ELSE IF Awaited(m) = "generate_from_choice"
    THEN CharacterMessage(m.name, "again", "player", m.from_choice)
    ELSE IF Awaited(m) = "narrate" THEN NarratorMessage("again", m.source)
    ELSE IF Awaited(m) = "direct_scene" THEN NarratorMessage("again", "__director__")
    ELSE [m EXCEPT !.text = "again"]

\* rerun leaves its await: to lines 1815-1816, or out with the exception
RerunResume(exc) ==
    /\ raised' = exc
    /\ rerun_pc' = IF exc = "" /\ popped_reinforcement_messages # <<>>
                   THEN "reinforce" ELSE "idle"

\* the awaited collaborator appends its message through push_history
\* (lines 1863, 1969; the conversation agent for talk) and returns
GenerationAppends ==
    /\ rerun_pc = "generate"
    /\ LET m == Regenerated(rerun_message)
           new == IF Awaited(rerun_message) = "investigate" THEN <<m>>
                  ELSE WithIds(<<m>>, message_id)
           r == push_history(history, ts, new)
       IN  /\ history' = r.history
           /\ ts' = r.ts
           /\ message_id' = IF Awaited(rerun_message) = "investigate"
                            THEN message_id ELSE message_id + 1
           /\ sent' = r.sent
    /\ generated' = generated + 1
    /\ RerunResume("")
    /\ UNCHANGED <<archived_history, op, pre, calls, lastDirector, rerun_message,
                   popped_reinforcement_messages>>
    /\ UNCHANGED <<ctxVars, loopVars, ret, saveVars, ragVars>>

\* the awaited collaborator returns without a message (never for lines 1862, 1969)
GenerationEmpty ==
    /\ rerun_pc = "generate"
    /\ Awaited(rerun_message) \in {"talk", "generate_from_choice", "direct_scene"}
    /\ RerunResume("")
    /\ UNCHANGED <<storeVars, op, pre, calls, lastDirector, rerun_message,
                   popped_reinforcement_messages, generated>>
    /\ UNCHANGED restVars

\* the awaited collaborator raises; rerun does not catch
GenerationRaises ==
    /\ rerun_pc = "generate"
    /\ \E exc \in {"GenerationCancelled", "LLMAccuracyError"} : RerunResume(exc)
    /\ UNCHANGED <<storeVars, op, pre, calls, lastDirector, rerun_message,
                   popped_reinforcement_messages, generated>>
    /\ UNCHANGED restVars

\* lines 1815-1816, 1930-1936: one popped message is regenerated by
\* update_reinforcement, which appends the fresh answer
Reinforce ==
    /\ rerun_pc = "reinforce"
    /\ LET m == Head(popped_reinforcement_messages)
           r == push_history(history, ts,
                             WithIds(<<ReinforcementMessage("again", m.source)>>,
                                     message_id))
       IN  /\ history' = r.history
           /\ ts' = r.ts
           /\ calls' = Append(calls, <<"update_reinforcement", m.source>>)
           /\ sent' = r.sent
    /\ message_id' = message_id + 1
    /\ popped_reinforcement_messages' = Tail(popped_reinforcement_messages)
    /\ rerun_pc' = IF Tail(popped_reinforcement_messages) = <<>>
                   THEN "idle" ELSE "reinforce"
    /\ UNCHANGED <<archived_history, op, raised, pre, lastDirector, rerun_message,
                   generated>>
    /\ UNCHANGED <<ctxVars, loopVars, ret, saveVars, ragVars>>

(***************************************************************************)
(* Scene.context_history.  A rendered string is kept as a part: what it    *)
(* renders (kind, layer, ref) and its token count.                         *)
(***************************************************************************)
\* line 1753: the combined size below which the intro is prepended
IntroThreshold == 1024

\* archive entry; ts "" and end NoEnd stand for an absent key
NoEnd == -1
ArchiveEntry(text, t, end) == [text |-> text, ts |-> t, end |-> end]
LayerEntry(text, t0, t1, end) == [text |-> text, ts_start |-> t0, ts_end |-> t1, end |-> end]

\* util.count_tokens of a plain text
TextTokens(text) ==
    CASE text = "saga" -> 600
      [] text = "tale" -> 300
      [] text = "" -> 0
      [] OTHER -> 2

\* util.count_tokens(message): the tokens of str(message), which adds to the
\* content "Name: " (character), "# Name's next action: " (director),
\* "# Internal note for Name - question" (reinforcement), "# title: "
\* (context investigation)
count_tokens(m) ==
    TextTokens(m.text) +
    (CASE m.typ = "character" -> 2
       [] m.typ = "director" -> 5
       [] m.typ = "reinforcement" -> 8
       [] m.typ = "context_investigation" -> 4
       [] OTHER -> 0)

\* tokens of message.as_format(format, mode=mode)
as_format(m, format, mode) ==
    TextTokens(m.text) +
    (CASE m.typ = "character" -> IF format = "movie_script" THEN 4 ELSE 2
       [] m.typ = "director" -> IF mode = "internal_monologue" THEN 6 ELSE 5
       [] m.typ = "reinforcement" -> IF format = "movie_script" THEN 8 ELSE 0
       [] m.typ = "context_investigation" -> IF format = "movie_script" THEN 4 ELSE 0
       [] OTHER -> 0)

\* DirectorMessage.character_name
character_name(m) == IF m.action = "actor_instruction" THEN m.name ELSE ""

Part(kind, layer, ref, tokens) ==
    [kind |-> kind, layer |-> layer, ref |-> ref, tokens |-> tokens]

\* count_tokens of a list of strings
RECURSIVE SumTokens(_)
SumTokens(parts) ==
    IF parts = <<>> THEN 0 ELSE Head(parts).tokens + SumTokens(Tail(parts))

\* lines 1600-1607: "<time>: <text>", the bare text when the time cannot be told
ArchiveText(e) == TextTokens(e.text) + (IF CanParse(e.ts) THEN 2 ELSE 0)

\* lines 1593-1614: walk the archive backward while the sub-budget allows
RECURSIVE ArchiveLane(_, _, _, _)
ArchiveLane(arch, i, parts, budget_context) ==
    IF i < 1 THEN parts
    ELSE IF arch[i].end = NoEnd THEN ArchiveLane(arch, i - 1, parts, budget_context)
    ELSE IF SumTokens(parts) + ArchiveText(arch[i]) > budget_context THEN parts
    ELSE ArchiveLane(arch, i - 1,
                     <<Part("archive", -1, i - 1, ArchiveText(arch[i]))>> \o parts,
                     budget_context)

\* lines 1635-1652: time phrase (one, or start and end), text, chapter label
LayerText(e, chapter_labels) ==
    TextTokens(e.text) + (IF e.ts_start = e.ts_end THEN 2 ELSE 6)
    + (IF chapter_labels THEN 3 ELSE 0)

\* lines 1624-1658: from the last layer down; each layer from next_layer_start.
\* i is the layer (from 1), start is next_layer_start (-1 for None), lastEnd the
\* "end" of the entry the inner loop visited last
RECURSIVE LayerLane(_, _, _, _, _, _)
LayerLane(layers, i, start, lastEnd, parts, chapter_labels) ==
    IF i < 1 THEN parts
    ELSE IF layers[i] = <<>>
    THEN LayerLane(layers, i - 1, start, lastEnd, parts, chapter_labels)
    ELSE LET first == IF start = -1 THEN 0 ELSE start
             slice == SubSeq(layers[i], first + 1, Len(layers[i]))
             new == [k \in 1..Len(slice) |->
                        Part("layer", i - 1, first + k - 1,
                             LayerText(slice[k], chapter_labels))]
             entryEnd == IF slice = <<>> THEN lastEnd ELSE slice[Len(slice)].end
         IN  LayerLane(layers, i - 1, entryEnd + 1, entryEnd, parts \o new,
                       chapter_labels)

\* lines 1662-1684: the archive entries after the last entry of layer 0
ArchiveRest(arch, layers, chapter_labels) ==
    LET base_layer_start == Last(layers[1]).end + 1
        slice == SubSeq(arch, base_layer_start + 1, Len(arch))
    IN  (IF chapter_labels THEN <<Part("current", -1, -1, 2)>> ELSE <<>>)
        \o [k \in 1..Len(slice) |->
               Part("archive", -1, base_layer_start + k - 1,
                    TextTokens(slice[k].text) + 2)]

\* lines 1674-1676: an entry there without a usable ts raises
ArchiveRestRaises(arch, layers) ==
    \E k \in (Last(layers[1]).end + 2)..Len(arch) : ~CanParse(arch[k].ts)

\* faulty variant: the context lane is not trimmed to its sub-budget
TrimContextNever(parts, budget_context) == parts

\* lines 1687-1690: chop off the top until it fits
RECURSIVE TrimContext(_, _)
TrimContext(parts, budget_context) ==
    IF SumTokens(parts) > budget_context
    THEN TrimContext(Tail(parts), budget_context)
    ELSE parts

\* line 1589: no usable layered history
NoLayers(layers, a) ==
    layers = <<>> \/ ~a.layered_history_enabled \/ layers[1] = <<>>

\* lines 1587-1690
ContextLane(arch, layers, a) ==
    TrimContext(
        IF NoLayers(layers, a)
        THEN ArchiveLane(arch, Len(arch), <<>>, a.budget \div 2)
        ELSE LayerLane(layers, Len(layers), -1, -1, <<>>, a.chapter_labels)
             \o ArchiveRest(arch, layers, a.chapter_labels),
        a.budget \div 2)

\* lines 1693-1706
SummarizedTo(arch, history_len) ==
    LET end == IF arch = <<>> \/ Last(arch).end = NoEnd THEN 0 ELSE Last(arch).end
    IN  IF end # 0 /\ end >= history_len THEN 0 ELSE end

\* faulty variant: a Director message that names no character is shown
SkippedButUntargeted(m, a) ==
    \/ m.hidden
    \/ m.typ = "reinforcement" /\ ~a.include_reinfocements
    \/ /\ m.typ = "director"
       /\ \/ a.keep_director = "False"
          \/ a.keep_director # "True" /\ m.source # a.keep_director
    \/ m.typ = "context_investigation" /\ ~a.keep_context_investigation

\* lines 1719-1738: the message is skipped
Skipped(m, a) ==
    \/ m.hidden
    \/ m.typ = "reinforcement" /\ ~a.include_reinfocements
    \/ /\ m.typ = "director"
       /\ \/ a.keep_director = "False"
          \/ character_name(m) = ""
          \/ a.keep_director # "True" /\ m.source # a.keep_director
    \/ m.typ = "context_investigation" /\ ~a.keep_context_investigation

\* faulty variant: the walk stops at the summarized index whatever it has collected
PastSummarizedNoFloor(i, summarized_to, collected, assured_dialogue_num) ==
    i < summarized_to

\* lines 1716-1717 (i is the zero-based index)
PastSummarized(i, summarized_to, collected, assured_dialogue_num) ==
    i < summarized_to /\ collected >= assured_dialogue_num

\* faulty variant: every message fits
OverDialogueBudgetNever(parts, m, budget_dialogue) == FALSE

\* lines 1741-1742
OverDialogueBudget(parts, m, budget_dialogue) ==
    SumTokens(parts) + count_tokens(m) > budget_dialogue

\* lines 1710-1750: walk history backward from index i (from 1).  stop tells
\* why the walk ended: "start" of history, "summarized" or "budget"
RECURSIVE DialogueLane(_, _, _, _, _, _)
DialogueLane(h, i, parts, collected, summarized_to, a) ==
    IF i < 1 THEN [parts |-> parts, collected |-> collected, stop |-> "start"]
    ELSE IF PastSummarized(i - 1, summarized_to, collected, a.assured_dialogue_num)
    THEN [parts |-> parts, collected |-> collected, stop |-> "summarized"]
    ELSE IF Skipped(h[i], a)
    THEN DialogueLane(h, i - 1, parts, collected, summarized_to, a)
    ELSE IF OverDialogueBudget(parts, h[i], a.budget \div 2)
    THEN [parts |-> parts, collected |-> collected, stop |-> "budget"]
    ELSE DialogueLane(h, i - 1,
            <<Part("message", -1, h[i].id,
                   as_format(h[i], a.conversation_format, a.actor_direction_mode))>>
                \o parts,
            IF h[i].typ = "character" THEN collected + 1 ELSE collected,
            summarized_to, a)

\* lines 1753-1756: the intro, when there is one and the result is small
WithIntro(parts_context, parts_dialogue, text) ==
    IF SumTokens(parts_context \o parts_dialogue) < IntroThreshold /\ text # ""
    THEN <<Part("intro", -1, -1, TextTokens(text))>> \o parts_context
    ELSE parts_context

\* lines 1563-1763
context_history(h, arch, layers, text, a) ==
    IF ~NoLayers(layers, a) /\ ArchiveRestRaises(arch, layers)
    THEN [args |-> a, raised |-> "KeyError", parts_context |-> <<>>,
          parts_dialogue |-> <<>>, collected |-> 0, stop |-> ""]
    ELSE LET pc == ContextLane(arch, layers, a)
             d == DialogueLane(h, Len(h), <<>>, 0, SummarizedTo(arch, Len(h)), a)
         IN  [args |-> a, raised |-> "",
              parts_context |-> WithIntro(pc, d.parts, text),
              parts_dialogue |-> d.parts,
              collected |-> d.collected, stop |-> d.stop]

\* budget, keyword arguments, and the agent settings context_history reads
ContextArgs(budget, director, investigation, reinforcements, assured, labels, format, mode, layered) ==
    [budget |-> budget, keep_director |-> director,
     keep_context_investigation |-> investigation,
     include_reinfocements |-> reinforcements,
     assured_dialogue_num |-> assured,
     chapter_labels |-> labels,
     conversation_format |-> format,
     actor_direction_mode |-> mode,
     layered_history_enabled |-> layered]

\* no call yet
NoContext ==
    [args |-> ContextArgs(0, "False", TRUE, TRUE, 0, FALSE, "chat", "direction", FALSE),
     raised |-> "", parts_context |-> <<>>, parts_dialogue |-> <<>>,
     collected |-> 0, stop |-> ""]

ContextHistory(a) ==
    /\ rerun_pc = "idle"
    /\ ctx' = context_history(history, archived_history, layered_history, intro, a)
    /\ op' = "context_history"
    /\ raised' = ctx'.raised
    /\ pre' = [history |-> history, ts |-> ts]
    /\ calls' = <<>>
    /\ UNCHANGED <<storeVars, lastDirector, rerunVars, layered_history, intro, loopVars, ret,
                   sent, saveVars, ragVars>>

(***************************************************************************)
(* Scene.start and Scene._run_game_loop.  The coroutine is suspended at     *)
(* the awaited actor.talk(); every other stretch of it runs in one step.   *)
(***************************************************************************)
\* line 2354: Scene.actors, sorted player first
actors == <<PlayerCharacter, "Bob">>

\* a scene whose loop has not run, with the given Scene.active and auto_progress
SceneLoop(is_active, progress) ==
    /\ loop_pc = "idle"
    /\ actor_idx = 0
    /\ skip_to_player = FALSE
    /\ signal_game_loop = TRUE
    /\ turn_start = FALSE
    /\ next_actor = ""
    /\ cancel_requested = FALSE
    /\ active = is_active
    /\ active_actor = ""
    /\ auto_progress = progress
    /\ propagated = ""
    /\ caught = ""
    /\ before = [next_actor |-> "", skip_to_player |-> FALSE, cancel_requested |-> FALSE]
    /\ first_loop = TRUE

\* lines 789-869: Scene.__init__; line 966: auto_progress defaults to True
LoopInit == SceneLoop(FALSE, TRUE)

\* the base class of an exception class: talemate.exceptions, line 77 for
\* ActedAsCharacter, the built-in hierarchy for the rest
ExceptionBase(cls) ==
    CASE cls \in {"ExitScene", "RestartSceneLoop", "ResetScene", "GenerationCancelled"}
            -> "TalemateInterrupt"
      [] cls = "LLMAccuracyError" -> "TalemateError"
      [] cls = "Exception" -> "BaseException"
      [] cls = "BaseException" -> ""
      [] OTHER -> "Exception"

RECURSIVE IsInstance(_, _)
IsInstance(exc, cls) ==
    \/ exc = cls
    \/ exc # "" /\ ExceptionBase(exc) # "" /\ IsInstance(ExceptionBase(exc), cls)

\* lines 2471-2497: the except clauses of the iteration, in order
ExceptClauses ==
    <<"GenerationCancelled", "TalemateInterrupt", "LLMAccuracyError", "TalemateError",
      "ClientDisabledError", "Exception">>

ExceptClauseWithoutCatchAll(exc) ==
    LET matching == {i \in 1..(Len(ExceptClauses) - 1) : IsInstance(exc, ExceptClauses[i])}
    IN  IF matching = {} THEN 0
        ELSE CHOOSE i \in matching : \A j \in matching : i <= j

\* the first clause that matches, 0 when none does
ExceptClause(exc) ==
    LET matching == {i \in DOMAIN ExceptClauses : IsInstance(exc, ExceptClauses[i])}
    IN  IF matching = {} THEN 0
        ELSE CHOOSE i \in matching : \A j \in matching : i <= j

OnGenerationCancelledKeepsTarget(s) ==
    [s EXCEPT !.signal_game_loop = FALSE, !.cancel_requested = FALSE,
              !.calls = <<"log.warning">>]

\* faulty variant: next_actor survives the cancellation
OnGenerationCancelledKeepsNextActor(s) ==
    [s EXCEPT !.signal_game_loop = FALSE, !.skip_to_player = TRUE,
              !.cancel_requested = FALSE, !.calls = <<"log.warning">>]

\* lines 2471-2476
OnGenerationCancelled(s) ==
    [s EXCEPT !.signal_game_loop = FALSE, !.skip_to_player = TRUE, !.next_actor = "",
              !.cancel_requested = FALSE, !.calls = <<"log.warning">>]

\* lines 2471-2504: what the iteration's error boundary does with exc; s holds
\* the flags, the place the coroutine goes on from and what it emits
GameLoopExcept(exc, s) ==
    LET k == ExceptClause(exc)
    IN  CASE k = 1 -> OnGenerationCancelled(s)
          [] k = 3 -> [s EXCEPT !.calls = <<"log.error", "emit:system:error">>]
          [] k = 4 -> [s EXCEPT !.calls = <<"log.error">>]
          [] k = 5 -> [s EXCEPT !.signal_game_loop = FALSE, !.skip_to_player = TRUE,
                                !.calls = <<"log.error", "emit:status:error">>]
          [] k = 6 -> [s EXCEPT !.calls = <<"log.error", "emit:system:error">>]
          [] OTHER -> [s EXCEPT !.pc = "raised", !.propagated = exc]

\* lines 2467-2470: after the pass over the actors
AfterActors == <<"save", "emit_status">>

\* lines 2222-2250, 2299-2368: start calls _run_game_loop, which runs up to its
\* while loop
RunGameLoop ==
    /\ loop_pc = "idle"
    /\ loop_pc' = "while"
    /\ active_actor' = ""
    /\ next_actor' = ""
    /\ signal_game_loop' = TRUE
    /\ skip_to_player' = FALSE
    /\ op' = "RunGameLoop"
    /\ calls' = IF first_loop THEN <<"scene_init", "game_loop_start">>
                ELSE <<"game_loop_start">>
    /\ UNCHANGED <<actor_idx, turn_start, cancel_requested, active, auto_progress,
                   propagated, caught, before>>
    /\ UNCHANGED <<storeVars, raised, pre, lastDirector, rerunVars, ctxVars, ret, sent, saveVars, ragVars,
                   first_loop>>

\* line 2370: continue_scene is never cleared
LoopTest ==
    /\ loop_pc = "while"
    /\ loop_pc' = IF active THEN "try" ELSE "returned"
    /\ op' = "LoopTest"
    /\ calls' = <<>>
    /\ UNCHANGED <<actor_idx, skip_to_player, signal_game_loop, turn_start, next_actor,
                   cancel_requested, active, active_actor, auto_progress, propagated,
                   caught, before>>
    /\ UNCHANGED <<storeVars, raised, pre, lastDirector, rerunVars, ctxVars, ret, sent, saveVars, ragVars,
                   first_loop>>

\* lines 2374-2386
IterationBegins ==
    /\ loop_pc = "try"
    /\ loop_pc' = "actor"
    /\ turn_start' = signal_game_loop
    /\ signal_game_loop' = TRUE
    /\ actor_idx' = 1
    /\ op' = "IterationBegins"
    /\ calls' = IF signal_game_loop THEN <<"game_loop">> ELSE <<>>
    /\ UNCHANGED <<skip_to_player, next_actor, cancel_requested, active, active_actor,
                   auto_progress, propagated, caught, before>>
    /\ UNCHANGED <<storeVars, raised, pre, lastDirector, rerunVars, ctxVars, ret, sent, saveVars, ragVars,
                   first_loop>>

\* faulty variant: an NPC gets its automatic turn with auto_progress off
TurnWithheldFromOthersOnly(actor, progress, target) ==
    target # "" /\ actor # target /\ progress

\* lines 2402-2417: the actor is passed over, auto_progress being off for an
\* NPC, or on with next_actor naming somebody else
TurnWithheld(actor, progress, target) ==
    \/ ~progress /\ ~is_player(actor)
    \/ target # "" /\ actor # target /\ progress

\* lines 2386-2430: the for loop up to the awaited talk, or past its end
ActorTurn ==
    /\ loop_pc = "actor"
    /\ op' = "ActorTurn"
    /\ IF actor_idx > Len(actors)
       THEN /\ loop_pc' = "while"
            /\ calls' = AfterActors
            /\ UNCHANGED <<actor_idx, skip_to_player, active_actor>>
       ELSE LET actor == actors[actor_idx]
            IN  IF skip_to_player /\ ~is_player(actor)
                THEN /\ actor_idx' = actor_idx + 1
                     /\ calls' = <<>>
                     /\ UNCHANGED <<loop_pc, skip_to_player, active_actor>>
                ELSE /\ skip_to_player' = FALSE
                     /\ IF TurnWithheld(actor, auto_progress, next_actor)
                        THEN /\ actor_idx' = actor_idx + 1
                             /\ calls' = <<>>
                             /\ UNCHANGED <<loop_pc, active_actor>>
                        ELSE /\ active_actor' = actor
                             /\ loop_pc' = "talk"
                             /\ calls' = IF ~is_player(actor) THEN <<"call_automated_actions">>
                                         ELSE IF turn_start THEN <<"player_turn_start">>
                                         ELSE <<>>
                             /\ UNCHANGED actor_idx
    /\ UNCHANGED <<signal_game_loop, turn_start, next_actor, cancel_requested, active,
                   auto_progress, propagated, caught, before>>
    /\ UNCHANGED <<storeVars, raised, pre, lastDirector, rerunVars, ctxVars, ret, sent, saveVars, ragVars,
                   first_loop>>

\* lines 2786-2787: Scene.interrupt, the external signal while generation is awaited
Interrupt ==
    /\ loop_pc = "talk"
    /\ ~cancel_requested
    /\ cancel_requested' = TRUE
    /\ op' = "interrupt"
    /\ calls' = <<>>
    /\ UNCHANGED <<loop_pc, actor_idx, skip_to_player, signal_game_loop, turn_start,
                   next_actor, active, active_actor, auto_progress, propagated, caught,
                   before>>
    /\ UNCHANGED <<storeVars, raised, pre, lastDirector, rerunVars, ctxVars, ret, sent, saveVars, ragVars,
                   first_loop>>

\* lines 2406-2410 read Scene.next_actor; the agents at work during the awaited
\* generation assign it
SetNextActor(name) ==
    /\ loop_pc = "talk"
    /\ next_actor # name
    /\ next_actor' = name
    /\ op' = "set_next_actor"
    /\ calls' = <<>>
    /\ UNCHANGED <<loop_pc, actor_idx, skip_to_player, signal_game_loop, turn_start,
                   cancel_requested, active, active_actor, auto_progress, propagated,
                   caught, before>>
    /\ UNCHANGED <<storeVars, raised, pre, lastDirector, rerunVars, ctxVars, ret, sent, saveVars, ragVars,
                   first_loop>>

\* lines 757-768: Player.talk appends what the player said
PlayerSays == <<CharacterMessage(PlayerCharacter, "hi", "player", "")>>

\* lines 739-744: Player.talk appends what the player said as the narrator
PlayerNarrates == <<NarratorMessage("hi", "player")>>

\* lines 2432-2465: the awaited talk returns: "none" (nothing said), "command"
\* (the player typed a command and it ran), "text" (the player spoke),
\* "messages" (the NPC's generation)
TalkReturns(kind) ==
    /\ loop_pc = "talk"
    /\ kind \in (IF is_player(active_actor) THEN {"none", "command", "text"}
                 ELSE {"none", "messages"})
    /\ kind = "text" => message_id < MaxId
    /\ op' = "TalkReturns"
    /\ IF kind = "text"
       THEN /\ history' = push_history(history, ts, WithIds(PlayerSays, message_id)).history
            /\ sent' = push_history(history, ts, WithIds(PlayerSays, message_id)).sent
            /\ message_id' = message_id + 1
            /\ pre' = [history |-> history, ts |-> ts]
       ELSE UNCHANGED <<history, message_id, pre, sent, saveVars, ragVars>>
    /\ IF kind = "command"
       THEN /\ signal_game_loop' = FALSE
            /\ loop_pc' = "while"
            /\ calls' = <<"command.execute">> \o AfterActors
            /\ UNCHANGED actor_idx
       ELSE /\ loop_pc' = "actor"
            /\ actor_idx' = actor_idx + 1
            /\ calls' = CASE kind = "none" -> <<>>
                          [] kind = "text" -> <<"emit:character", "command.execute",
                                                "call_automated_actions",
                                                "game_loop_actor_iter">>
                          [] OTHER -> <<"process_npc_dialogue", "game_loop_actor_iter">>
            /\ UNCHANGED signal_game_loop
    /\ caught' = ""
    /\ UNCHANGED <<skip_to_player, turn_start, next_actor, cancel_requested, active,
                   active_actor, auto_progress, propagated, before>>
    /\ UNCHANGED <<archived_history, ts, raised, lastDirector, rerunVars, ctxVars, ret,
                   saveVars, ragVars, first_loop>>

\* what the awaited talk raises: the signals and errors of talemate.exceptions
\* and of the client, an error of any other class, and ActedAsCharacter
TalkExceptions ==
    {"GenerationCancelled", "ExitScene", "RestartSceneLoop", "ResetScene",
     "LLMAccuracyError", "TalemateError", "ClientDisabledError", "ValueError",
     "ActedAsCharacter"}

\* faulty variant: the pass goes on with the next actor
OnActedAsCharacterContinues(s) ==
    [s EXCEPT !.signal_game_loop = FALSE, !.pc = "actor"]

\* lines 2432-2436, 2467-2470: the break out of the pass over the actors, and
\* what follows the pass
OnActedAsCharacter(s) ==
    [s EXCEPT !.signal_game_loop = FALSE, !.pc = "while",
              !.calls = s.calls \o AfterActors]

\* lines 2432-2436, 2471-2504: the awaited talk raises.  GenerationCancelled
\* comes from continue_actions (lines 2789-2792), which clears the flag first;
\* ActedAsCharacter from a player who spoke as the narrator (lines 739-744)
TalkRaises(exc) ==
    /\ loop_pc = "talk"
    /\ exc = "GenerationCancelled" => cancel_requested
    /\ exc = "ActedAsCharacter" => is_player(active_actor) /\ message_id < MaxId
    /\ op' = "TalkRaises"
    /\ caught' = exc
    /\ before' = [next_actor |-> next_actor, skip_to_player |-> skip_to_player,
                  cancel_requested |-> cancel_requested]
    /\ IF exc = "ActedAsCharacter"
       THEN /\ history' = push_history(history, ts, WithIds(PlayerNarrates, message_id)).history
            /\ sent' = push_history(history, ts, WithIds(PlayerNarrates, message_id)).sent
            /\ message_id' = message_id + 1
            /\ pre' = [history |-> history, ts |-> ts]
            /\ LET r == OnActedAsCharacter([pc |-> "talk",
                                             signal_game_loop |-> signal_game_loop,
                                             calls |-> <<"emit:narrator">>])
               IN  /\ signal_game_loop' = r.signal_game_loop
                   /\ loop_pc' = r.pc
                   /\ calls' = r.calls
            /\ UNCHANGED <<skip_to_player, next_actor, cancel_requested, propagated>>
       ELSE LET s == [pc |-> "while", propagated |-> "",
                      signal_game_loop |-> signal_game_loop,
                      skip_to_player |-> skip_to_player,
                      next_actor |-> next_actor,
                      cancel_requested |-> IF exc = "GenerationCancelled" THEN FALSE
                                           ELSE cancel_requested,
                      calls |-> <<>>]
                r == GameLoopExcept(exc, s)
            IN  /\ loop_pc' = r.pc
                /\ propagated' = r.propagated
                /\ signal_game_loop' = r.signal_game_loop
                /\ skip_to_player' = r.skip_to_player
                /\ next_actor' = r.next_actor
                /\ cancel_requested' = r.cancel_requested
                /\ calls' = r.calls
                /\ UNCHANGED <<history, message_id, pre, sent, saveVars, ragVars>>
    /\ UNCHANGED <<actor_idx, turn_start, active, active_actor, auto_progress>>
    /\ UNCHANGED <<archived_history, ts, raised, lastDirector, rerunVars, ctxVars, ret,
                   saveVars, ragVars, first_loop>>

\* faulty variant: RestartSceneLoop is handled like ResetScene, by `continue`
StartExceptContinues(exc, first) ==
    [pc |-> CASE exc = "ExitScene" -> "exited"
              [] exc \in {"", "RestartSceneLoop", "ResetScene"} -> "idle"
              [] OTHER -> "crashed",
     first_loop |-> IF exc = "" THEN FALSE ELSE first]

\* lines 2234-2248: what start does with the way _run_game_loop ended ("" when
\* it returned): break on ExitScene, go on to `first_loop = False` on
\* RestartSceneLoop and on a return, `continue` on ResetScene; any other
\* exception leaves start
StartExcept(exc, first) ==
    [pc |-> CASE exc = "ExitScene" -> "exited"
              [] exc \in {"", "RestartSceneLoop", "ResetScene"} -> "idle"
              [] OTHER -> "crashed",
     first_loop |-> IF exc \in {"", "RestartSceneLoop"} THEN FALSE ELSE first]

\* lines 2232-2250: Scene.start once _run_game_loop has returned or raised
StartResumes ==
    /\ loop_pc \in {"returned", "raised"}
    /\ loop_pc' = StartExcept(propagated, first_loop).pc
    /\ first_loop' = StartExcept(propagated, first_loop).first_loop
    /\ propagated' = IF propagated \in {"", "ExitScene", "RestartSceneLoop", "ResetScene"}
                     THEN "" ELSE propagated
    /\ op' = "start"
    /\ calls' = <<>>
    /\ UNCHANGED <<actor_idx, skip_to_player, signal_game_loop, turn_start, next_actor,
                   cancel_requested, active, active_actor, auto_progress, caught, before>>
    /\ UNCHANGED <<storeVars, raised, pre, lastDirector, rerunVars, ctxVars, ret, sent, saveVars, ragVars>>

(***************************************************************************)
(* Scene.fix_time and Scene.push_archive.  An archive entry without an     *)
(* "end" key has end = NoEnd, one without a "ts" key has ts = "".          *)
(***************************************************************************)
StartingTimeAnyEntry(arch, i, starting_time) ==
    LET with_ts == {k \in i..Len(arch) : arch[k].ts # ""}
    IN  IF with_ts = {} THEN starting_time
        ELSE arch[CHOOSE k \in with_ts : \A j \in with_ts : j <= k].ts

\* lines 2134-2140: the ts of the last static entry ahead of the first
\* summarized one, from entry i on
RECURSIVE StartingTime(_, _, _)
StartingTime(arch, i, starting_time) ==
    IF i > Len(arch) THEN starting_time
    ELSE IF arch[i].ts # "" /\ arch[i].end = NoEnd
    THEN StartingTime(arch, i + 1, arch[i].ts)
    ELSE IF arch[i].end # NoEnd THEN starting_time
    ELSE StartingTime(arch, i + 1, starting_time)

\* faulty variant: the message at index 0 is never taken for a jump
TimeJumpsFromSecond(h, i) ==
    SelectSeq([k \in 1..Len(h) |-> [idx |-> k - 1, ts |-> h[k].ts, typ |-> h[k].typ]],
              LAMBDA e : e.typ = "time" /\ e.idx >= i)

\* lines 2143-2147: (zero-based index, ts) of the TimePassage messages from i on
RECURSIVE TimeJumps(_, _)
TimeJumps(h, i) ==
    IF i > Len(h) THEN <<>>
    ELSE (IF h[i].typ = "time" THEN <<[idx |-> i - 1, ts |-> h[i].ts]>> ELSE <<>>)
         \o TimeJumps(h, i + 1)

CumulativeFromStart(clock, time_jumps) ==
    [k \in DOMAIN time_jumps |->
        [idx |-> time_jumps[k].idx, ts |-> iso8601_add(clock, time_jumps[k].ts)]]

\* lines 2151-2155: each jump becomes the sum of the jumps up to it
RECURSIVE Cumulative(_, _)
Cumulative(clock, time_jumps) ==
    IF time_jumps = <<>> THEN <<>>
    ELSE LET sum == iso8601_add(clock, Head(time_jumps).ts)
         IN  <<[idx |-> Head(time_jumps).idx, ts |-> sum]>>
             \o Cumulative(sum, Tail(time_jumps))

\* line 2154: iso8601_add raises on a string that is no duration
CumulativeRaises(clock, time_jumps) ==
    /\ time_jumps # <<>>
    /\ \/ ~CanParse(clock)
       \/ \E k \in DOMAIN time_jumps : ~CanParse(time_jumps[k].ts)

\* lines 2176-2181: the last cumulative jump before history index end, "" for None
BestTs(cumulative_time_jumps, end) ==
    LET before_end == {k \in DOMAIN cumulative_time_jumps :
                          \A j \in 1..k : cumulative_time_jumps[j].idx < end}
    IN  IF before_end = {} THEN ""
        ELSE cumulative_time_jumps[CHOOSE k \in before_end : \A j \in before_end : j <= k].ts

\* lines 2165-2187: the archive with the ts of its summarized entries rewritten
RECURSIVE FixArchive(_, _, _, _)
FixArchive(arch, i, clock, cumulative_time_jumps) ==
    IF i > Len(arch) THEN arch
    ELSE IF arch[i].end = NoEnd
    THEN FixArchive(arch, i + 1, clock, cumulative_time_jumps)
    ELSE LET best_ts == BestTs(cumulative_time_jumps, arch[i].end)
             entry_ts == IF best_ts # "" THEN best_ts ELSE clock
         IN  FixArchive([arch EXCEPT ![i].ts = entry_ts], i + 1, entry_ts,
                        cumulative_time_jumps)

\* lines 2133-2191: the clock and archive _fix_time leaves behind, and the
\* exception it raises ("" if none); Scene.ts is assigned last
fix_time_body(h, arch, clock) ==
    LET starting_time == StartingTime(arch, 1, "PT0S")
        time_jumps == TimeJumps(h, 1)
    IN  IF CumulativeRaises(starting_time, time_jumps)
        THEN [ts |-> clock, archived_history |-> arch, raised |-> "ISO8601Error",
              calls |-> <<>>]
        ELSE IF time_jumps = <<>>
        THEN [ts |-> starting_time, archived_history |-> arch, raised |-> "",
              calls |-> <<>>]
        ELSE LET cumulative_time_jumps == Cumulative(starting_time, time_jumps)
             IN  [ts |-> cumulative_time_jumps[Len(cumulative_time_jumps)].ts,
                  archived_history |-> FixArchive(arch, 1, starting_time,
                                                  cumulative_time_jumps),
                  raised |-> "", calls |-> <<>>]

fix_time_unguarded(h, arch, clock) == fix_time_body(h, arch, clock)

\* lines 2115-2131: fix_time over _fix_time; an exception of _fix_time is
\* logged and the clock put back
fix_time(h, arch, clock) ==
    LET r == fix_time_body(h, arch, clock)
    IN  IF r.raised # ""
        THEN [r EXCEPT !.ts = clock, !.raised = "", !.calls = <<"log.exception">>]
        ELSE r

FixTime ==
    /\ rerun_pc = "idle"
    /\ LET r == fix_time(history, archived_history, ts)
       IN  /\ ts' = r.ts
           /\ archived_history' = r.archived_history
           /\ calls' = r.calls
           /\ raised' = r.raised
    /\ op' = "fix_time"
    /\ pre' = [history |-> history, ts |-> ts, op |-> op,
               archived_history |-> archived_history]
    /\ UNCHANGED <<history, message_id, lastDirector, rerunVars>>
    /\ UNCHANGED restVars

\* archive entries in one behaviour
MaxArchive == 2

\* lines 1274-1297: the summarizer archives the history up to its end
PushArchive(text) ==
    /\ rerun_pc = "idle"
    /\ Len(archived_history) < MaxArchive
    /\ history # <<>>
    /\ archived_history' = Append(archived_history, ArchiveEntry(text, ts, Len(history) - 1))
    /\ op' = "push_archive"
    /\ raised' = ""
    /\ pre' = [history |-> history, ts |-> ts]
    /\ calls' = <<"archive_add", "emit:archived_history">>
    /\ UNCHANGED <<history, ts, message_id, lastDirector, rerunVars>>
    /\ UNCHANGED restVars

(***************************************************************************)
(* Scene.serialize, Scene.save_restore, Scene.reset and Scene.restore.     *)
(* A document is what json.dump writes: messages as the dicts of           *)
(* SceneMessage.__dict__, archive entries as their dicts.  A dict is a     *)
(* function on its keys.                                                   *)
(***************************************************************************)
\* the file a restore point is kept in
RestorePoint == "restore.json"

\* dict.get(k, default)
Get(d, k, default) == IF k \in DOMAIN d THEN d[k] ELSE default

\* the content of a message: "Name: text", or the text alone
Content(name, text) == IF name = "" THEN text ELSE name \o ": " \o text

\* scene_message.py lines 76-88, 195-201, 273-279, 307-310: the keys of __dict__()
MessageKeys(m) ==
    {"message", "id", "typ", "source", "flags"}
        \cup (IF m.meta # "" THEN {"meta"} ELSE {})
        \cup (IF m.typ = "character" /\ m.from_choice # "" THEN {"from_choice"} ELSE {})
        \cup (IF m.typ = "director" /\ m.action # "" THEN {"action"} ELSE {})
        \cup (IF m.typ = "time" THEN {"ts"} ELSE {})

\* SceneMessage.__dict__ and its overrides
MessageDict(m) ==
    [k \in MessageKeys(m) |->
        CASE k = "message" -> Content(m.name, m.text)
          [] k = "id" -> m.id
          [] k = "typ" -> m.typ
          [] k = "source" -> m.source
          [] k = "flags" -> IF m.hidden THEN 1 ELSE 0
          [] k = "meta" -> m.meta
          [] k = "from_choice" -> m.from_choice
          [] k = "action" -> m.action
          [] k = "ts" -> m.ts]

\* an archive entry as stored: a dict that has the keys the entry has
ArchiveDict(e) ==
    [k \in {"text"} \cup (IF e.ts # "" THEN {"ts"} ELSE {})
                    \cup (IF e.end # NoEnd THEN {"end"} ELSE {}) |->
        CASE k = "text" -> e.text
          [] k = "ts" -> e.ts
          [] k = "end" -> e.end]

\* lines 2748-2779 written with the encoder of talemate.save: the document
serialize(h, arch, layers, clock, text, origin) ==
    [history |-> [i \in 1..Len(h) |-> MessageDict(h[i])],
     archived_history |-> [i \in 1..Len(arch) |-> ArchiveDict(arch[i])],
     layered_history |-> layers,
     intro |-> text,
     ts |-> clock,
     restore_from |-> origin]

\* the names and texts message contents are made of
ContentParts ==
    {<<"", "dusk">>, <<"", "later">>, <<"Bob", "hi">>, <<"Bob", "go">>, <<"Elara", "hi">>}

\* the message class of the entry's typ built from the entry, absent fields
\* at the defaults of the dataclass (scene_message.py lines 41-58, 157-160,
\* 216-218, 302-305)
LoadMessage(d) ==
    LET p == CHOOSE q \in ContentParts : Content(q[1], q[2]) = d["message"]
    IN  [id |-> d["id"], typ |-> d["typ"], source |-> d["source"],
         name |-> p[1], text |-> p[2],
         hidden |-> d["flags"] = 1,
         from_choice |-> Get(d, "from_choice", ""),
         ts |-> Get(d, "ts", ""),
         action |-> IF d["typ"] = "director" THEN Get(d, "action", "actor_instruction")
                    ELSE "",
         meta |-> Get(d, "meta", "")]

LoadArchive(d) == ArchiveEntry(d["text"], Get(d, "ts", ""), Get(d, "end", NoEnd))

\* talemate.load.load_scene: the structural inverse of serialize
load_scene(doc) ==
    [history |-> [i \in 1..Len(doc.history) |-> LoadMessage(doc.history[i])],
     archived_history |->
        [i \in 1..Len(doc.archived_history) |-> LoadArchive(doc.archived_history[i])],
     layered_history |-> doc.layered_history,
     intro |-> doc.intro,
     ts |-> doc.ts,
     restore_from |-> doc.restore_from]

\* no document
NoDocument == serialize(<<>>, <<>>, <<>>, "", "", "")

\* no scene
NoScene == [history |-> <<>>, archived_history |-> <<>>, layered_history |-> <<>>, ts |-> ""]

\* an empty save directory; nothing to restore from
SaveInit ==
    /\ files = [exists |-> FALSE, doc |-> NoDocument]
    /\ restore_from = ""
    /\ saved_scene = NoScene

\* src/talemate/agents/memory/rag.py line 121: connect gives the scene an empty
\* rag_cache; NoCache is the missing entry under the agent's cache key
NoCache == [content |-> <<>>, fingerprint |-> <<"none">>]

RagInit ==
    /\ rag_cache = NoCache
    /\ rag_stored = <<>>

\* lines 2682-2684: reset keeps the archive entries that have no end
reset(arch) == SelectSeq(arch, LAMBDA e : e.end = NoEnd)

\* lines 2659-2663: commit_to_memory gives each entry without a ts the ts "PT1S"
commit_to_memory(arch) ==
    [i \in 1..Len(arch) |-> IF arch[i].ts = "" THEN [arch[i] EXCEPT !.ts = "PT1S"]
                            ELSE arch[i]]

\* lines 2629-2644: save_restore writes the serialized scene to the file
SaveRestore(filename) ==
    /\ rerun_pc = "idle"
    /\ files' = [exists |-> TRUE,
                 doc |-> serialize(history, archived_history, layered_history, ts, intro,
                                   restore_from)]
    /\ saved_scene' = [history |-> history, archived_history |-> archived_history,
                       layered_history |-> layered_history, ts |-> ts]
    /\ op' = "save_restore"
    /\ raised' = ""
    /\ pre' = [history |-> history, ts |-> ts, filename |-> filename]
    /\ calls' = <<>>
    /\ UNCHANGED <<storeVars, lastDirector, rerunVars, ctxVars, loopVars, ret, sent,
                   restore_from, ragVars>>

\* lines 2704-2742: restore.  Without restore_from it logs and returns; else it
\* resets the scene, loads the file, recommits the memory (reset_memory, lines
\* 2695-2701) and emits the status; an exception on the way (the file is not
\* there) is logged and swallowed
Restore ==
    /\ rerun_pc = "idle"
    /\ op' = "restore"
    /\ raised' = ""
    /\ pre' = [history |-> history, ts |-> ts, archived_history |-> archived_history,
               layered_history |-> layered_history, restore_from |-> restore_from,
               exists |-> files.exists]
    /\ IF restore_from = ""
       THEN /\ calls' = <<"log.error">>
            /\ UNCHANGED <<history, archived_history, ts, layered_history, intro,
                           restore_from>>
       ELSE IF ~files.exists
       THEN /\ history' = <<>>
            /\ archived_history' = reset(archived_history)
            /\ calls' = <<"log.error">>
            /\ UNCHANGED <<ts, layered_history, intro, restore_from>>
       ELSE LET s == load_scene(files.doc)
            IN  /\ history' = s.history
                /\ archived_history' = commit_to_memory(s.archived_history)
                /\ layered_history' = s.layered_history
                /\ intro' = s.intro
                /\ ts' = s.ts
                /\ restore_from' = s.restore_from
                /\ calls' = [i \in 1..Len(s.archived_history) |-> "archive_add"]
                                \o <<"emit:status">>
    /\ UNCHANGED <<message_id, lastDirector, rerunVars, ctx, loopVars, ret, sent, files,
                   saved_scene, ragVars>>

(***************************************************************************)
(* Scene.sync_time, Scene.delete_message and Scene.edit_message.           *)
(***************************************************************************)
\* lines 2096-2100: the ts of the last archive entry that has one, "PT0S" if none
SyncBaseline(arch) ==
    LET with_ts == {k \in 1..Len(arch) : arch[k].ts # ""}
    IN  IF with_ts = {} THEN "PT0S"
        ELSE arch[CHOOSE k \in with_ts : \A j \in with_ts : j <= k].ts

\* faulty variant: the whole history is replayed whatever the archive covers
SyncEndIgnored(arch) == 0

\* lines 2102-2104: the history index the last archive entry ends at
SyncEnd(arch) ==
    IF arch = <<>> \/ arch[Len(arch)].end = NoEnd THEN 0 ELSE arch[Len(arch)].end

\* lines 2106-2108: advance the clock by the TimePassage messages from i on;
\* stops where advance_time raises
RECURSIVE SyncScan(_, _, _)
SyncScan(h, i, clock) ==
    IF i > Len(h) THEN [ts |-> clock, raised |-> ""]
    ELSE IF h[i].typ # "time" THEN SyncScan(h, i + 1, clock)
    ELSE IF CanParse(clock) /\ CanParse(h[i].ts)
    THEN SyncScan(h, i + 1, advance_time(clock, h[i].ts))
    ELSE [ts |-> clock, raised |-> "ISO8601Error"]

sync_time_keeps_clock(h, arch, clock) == SyncScan(h, SyncEnd(arch) + 1, clock)

\* lines 2083-2113: the clock is reset, set to the archive's baseline and
\* advanced by the messages the archive does not cover
sync_time(h, arch, clock) == SyncScan(h, SyncEnd(arch) + 1, SyncBaseline(arch))

\* lines 2083-2113: sync_time called on its own
SyncTime ==
    /\ rerun_pc = "idle"
    /\ LET r == sync_time(history, archived_history, ts)
       IN  /\ ts' = r.ts
           /\ raised' = r.raised
           /\ calls' = IF r.raised = "" THEN <<"log.info">> ELSE <<>>
    /\ op' = "sync_time"
    /\ pre' = [history |-> history, ts |-> ts, archived_history |-> archived_history]
    /\ UNCHANGED <<history, archived_history, message_id, lastDirector, rerunVars>>
    /\ UNCHANGED restVars

\* indices of the messages with that id
WithId(h, id) == {i \in 1..Len(h) : h[i].id = id}

\* faulty variant: the clock is synchronised whatever message is removed
delete_message_always_syncs(h, arch, clock, id) ==
    IF WithId(h, id) = {}
    THEN [history |-> h, ts |-> clock, raised |-> "", calls |-> <<>>]
    ELSE LET i == CHOOSE k \in WithId(h, id) : \A j \in WithId(h, id) : k <= j
             rest == RemoveAt(h, i)
             r == sync_time(rest, arch, clock)
         IN  [history |-> rest, ts |-> r.ts, raised |-> r.raised,
              calls |-> <<"emit:remove_message">>]

\* lines 1973-1988
delete_message(h, arch, clock, id) ==
    IF WithId(h, id) = {}
    THEN [history |-> h, ts |-> clock, raised |-> "", calls |-> <<>>]
    ELSE LET i == CHOOSE k \in WithId(h, id) : \A j \in WithId(h, id) : k <= j
             rest == RemoveAt(h, i)
         IN  IF h[i].typ # "time"
             THEN [history |-> rest, ts |-> clock, raised |-> "",
                   calls |-> <<"emit:remove_message">>]
             ELSE LET r == sync_time(rest, arch, clock)
                  IN  [history |-> rest, ts |-> r.ts, raised |-> r.raised,
                       calls |-> IF r.raised = ""
                                 THEN <<"emit:remove_message", "emit_status">>
                                 ELSE <<"emit:remove_message">>]

DeleteMessage(id) ==
    /\ rerun_pc = "idle"
    /\ LET r == delete_message(history, archived_history, ts, id)
       IN  /\ history' = r.history
           /\ ts' = r.ts
           /\ raised' = r.raised
           /\ calls' = r.calls
    /\ op' = "delete_message"
    /\ pre' = [history |-> history, ts |-> ts, id |-> id]
    /\ UNCHANGED <<archived_history, message_id, lastDirector, rerunVars>>
    /\ UNCHANGED restVars

edit_message_first(h, id, name, text) ==
    IF h = <<>> THEN h ELSE [h EXCEPT ![1].name = name, ![1].text = text]

\* lines 1299-1309: the content of the message with that id is replaced
edit_message(h, id, name, text) ==
    IF WithId(h, id) = {} THEN h
    ELSE LET i == CHOOSE k \in WithId(h, id) : \A j \in WithId(h, id) : k <= j
         IN  [h EXCEPT ![i].name = name, ![i].text = text]

\* the new content is "name: text", or text alone when name is ""
EditMessage(id, name, text) ==
    /\ rerun_pc = "idle"
    /\ history' = edit_message(history, id, name, text)
    /\ calls' = IF WithId(history, id) = {} THEN <<>>
                ELSE <<"emit:message_edited", "log.info">>
    /\ op' = "edit_message"
    /\ raised' = ""
    /\ pre' = [history |-> history, ts |-> ts, id |-> id]
    /\ UNCHANGED <<archived_history, ts, message_id, lastDirector, rerunVars>>
    /\ UNCHANGED restVars

(***************************************************************************)
(* Scene.last_message_of_type, Scene.collect_messages, Scene.pop_history.  *)
(* A source or typ of "" stands for None.                                  *)
(***************************************************************************)
\* max_iterations or max_messages of None
NoLimit == -1

\* a returned message, and the None a function returns
Returned(value) == [value |-> value, none |-> FALSE]
ReturnedNone == [value |-> <<>>, none |-> TRUE]

LastScanOldestFirst(h, idx, typ, source, max_iterations, num_iterations) ==
    LET window == {i \in 1..Len(h) :
                      /\ max_iterations = NoLimit \/ Len(h) - i < max_iterations
                      /\ h[i].typ \in typ
                      /\ h[i].source = source \/ source = ""}
    IN  IF window = {} THEN ReturnedNone
        ELSE Returned(<<h[CHOOSE i \in window : \A j \in window : i <= j]>>)

\* lines 1191-1201: the backward scan from idx (from 1); typ is the list of types
RECURSIVE LastScan(_, _, _, _, _, _)
LastScan(h, idx, typ, source, max_iterations, num_iterations) ==
    IF idx < 1 THEN ReturnedNone
    ELSE IF max_iterations # NoLimit /\ num_iterations >= max_iterations THEN ReturnedNone
    ELSE IF h[idx].typ \in typ /\ (h[idx].source = source \/ source = "")
    THEN Returned(<<h[idx]>>)
    ELSE LastScan(h, idx - 1, typ, source, max_iterations, num_iterations + 1)

\* lines 1177-1201
last_message_of_type(h, typ, source, max_iterations) ==
    LastScan(h, Len(h), typ, source, max_iterations, 0)

\* lines 1216-1229: the backward scan from idx (from 1); messages holds the
\* matches in the order they were met
RECURSIVE CollectScan(_, _, _, _, _, _, _, _)
CollectScan(h, idx, typ, source, max_iterations, max_messages, messages, iterations) ==
    IF idx < 1 THEN messages
    ELSE LET match == /\ typ = "" \/ h[idx].typ = typ
                      /\ source = "" \/ h[idx].source = source
             found == IF match THEN Append(messages, h[idx]) ELSE messages
         IN  IF match /\ max_messages # NoLimit /\ Len(found) >= max_messages THEN found
             ELSE IF iterations + 1 >= max_iterations THEN found
             ELSE CollectScan(h, idx - 1, typ, source, max_iterations, max_messages,
                              found, iterations + 1)

RECURSIVE Reverse(_)
Reverse(seq) == IF seq = <<>> THEN <<>> ELSE Reverse(Tail(seq)) \o <<Head(seq)>>

collect_messages_oldest_first(h, typ, source, max_iterations, max_messages) ==
    Reverse(CollectScan(h, Len(h), typ, source, max_iterations, max_messages, <<>>, 0))

\* lines 1203-1231: the matches as the scan met them
collect_messages(h, typ, source, max_iterations, max_messages) ==
    CollectScan(h, Len(h), typ, source, max_iterations, max_messages, <<>>, 0)

\* lines 1117-1120: the indices (from 1) in the order the scan visits them
IterRange(h, reverse) == [k \in 1..Len(h) |-> IF reverse THEN k ELSE Len(h) + 1 - k]

PopScanAnyType(h, iter_range, k, typ, source, all, max_iterations, to_remove, iterations) ==
    IF h = <<>> THEN <<>> ELSE <<h[iter_range[1]]>>

\* lines 1124-1133: the scan from position k of the range; to_remove holds
\* the matches in the order they were met
RECURSIVE PopScan(_, _, _, _, _, _, _, _, _)
PopScan(h, iter_range, k, typ, source, all, max_iterations, to_remove, iterations) ==
    IF k > Len(iter_range) THEN to_remove
    ELSE LET idx == iter_range[k]
             match == h[idx].typ = typ /\ (h[idx].source = source \/ source = "")
             found == IF match THEN Append(to_remove, h[idx]) ELSE to_remove
         IN  IF match /\ ~all THEN found
             ELSE IF max_iterations \notin {NoLimit, 0} /\ iterations + 1 >= max_iterations
             THEN found
             ELSE PopScan(h, iter_range, k + 1, typ, source, all, max_iterations,
                          found, iterations + 1)

\* list.remove: without the first element equal to m
RemoveFirstEqual(h, m) ==
    LET equal == {i \in 1..Len(h) : h[i] = m}
    IN  IF equal = {} THEN h
        ELSE RemoveAt(h, CHOOSE i \in equal : \A j \in equal : i <= j)

\* lines 1135-1136
RECURSIVE RemoveEach(_, _)
RemoveEach(h, to_remove) ==
    IF to_remove = <<>> THEN h
    ELSE RemoveEach(RemoveFirstEqual(h, Head(to_remove)), Tail(to_remove))

pop_history_keeps(h, typ, source, all, max_iterations, reverse) ==
    [history |-> h, ret |-> ReturnedNone]

\* lines 1104-1136: the history left behind; the function has no return
\* statement
pop_history(h, typ, source, all, max_iterations, reverse) ==
    [history |-> RemoveEach(h, PopScan(h, IterRange(h, reverse), 1, typ, source, all,
                                       max_iterations, <<>>, 0)),
     ret |-> ReturnedNone]

LastMessageOfType(typ, source, max_iterations) ==
    /\ rerun_pc = "idle"
    /\ ret' = last_message_of_type(history, typ, source, max_iterations)
    /\ op' = "last_message_of_type"
    /\ raised' = ""
    /\ calls' = <<>>
    /\ pre' = [history |-> history, ts |-> ts, typ |-> typ, source |-> source,
               max_iterations |-> max_iterations]
    /\ UNCHANGED <<storeVars, lastDirector, rerunVars, ctxVars, loopVars, sent, saveVars, ragVars>>

CollectMessages(typ, source, max_iterations, max_messages) ==
    /\ rerun_pc = "idle"
    /\ ret' = Returned(collect_messages(history, typ, source, max_iterations, max_messages))
    /\ op' = "collect_messages"
    /\ raised' = ""
    /\ calls' = <<>>
    /\ pre' = [history |-> history, ts |-> ts, typ |-> typ, source |-> source,
               max_iterations |-> max_iterations, max_messages |-> max_messages]
    /\ UNCHANGED <<storeVars, lastDirector, rerunVars, ctxVars, loopVars, sent, saveVars, ragVars>>

PopHistory(typ, source, all, max_iterations, reverse) ==
    /\ rerun_pc = "idle"
    /\ LET r == pop_history(history, typ, source, all, max_iterations, reverse)
       IN  /\ history' = r.history
           /\ ret' = r.ret
    /\ op' = "pop_history"
    /\ raised' = ""
    /\ calls' = <<>>
    /\ pre' = [history |-> history, ts |-> ts, typ |-> typ, source |-> source,
               all |-> all, max_iterations |-> max_iterations, reverse |-> reverse]
    /\ UNCHANGED <<archived_history, ts, message_id, lastDirector, rerunVars, ctxVars,
                   loopVars, sent, saveVars, ragVars>>

(***************************************************************************)
(* The history store under push_history.                                   *)
(***************************************************************************)
StoreMessages ==
    { DirectorMessage("Bob", "go", "Bob", "actor_instruction"),
      DirectorMessage("Alice", "go", "Alice", "actor_instruction"),
      CharacterMessage("Bob", "hi", "ai", ""),
      NarratorMessage("dusk", "progress_story"),
      TimePassageMessage("later", "P1D") }

\* lines 789-869: Scene.__init__, apart from the loop
SceneInit ==
    /\ history = <<>>
    /\ archived_history = <<>>
    /\ ts = "PT0S"
    /\ message_id = 0
    /\ op = ""
    /\ raised = ""
    /\ pre = [history |-> <<>>, ts |-> "PT0S"]
    /\ calls = <<>>
    /\ lastDirector = <<>>
    /\ rerun_pc = "idle"
    /\ rerun_message = NoMessage
    /\ popped_reinforcement_messages = <<>>
    /\ generated = 0
    /\ layered_history = <<>>
    /\ intro = ""
    /\ ctx = NoContext
    /\ ret = NoReturn
    /\ sent = <<>>
    /\ SaveInit
    /\ RagInit

Init == SceneInit /\ LoopInit

Push == \E b \in Batches(StoreMessages) : PushHistory(b)

Next == Push

Spec == Init /\ [][Next]_vars

Directors(h, s) == {i \in 1..Len(h) : h[i].typ = "director" /\ h[i].source = s}

\* C1: after any sequence of push_history calls, single or batch, the history
\* holds at most one DirectorMessage per source, and it is the one appended last.
C1_OneDirectorPerSource ==
    \A s \in DOMAIN lastDirector :
        /\ Cardinality(Directors(history, s)) <= 1
        /\ \A i \in Directors(history, s) : history[i].id = lastDirector[s]

(***************************************************************************)
(* Rerun of the most recent message.                                       *)
(***************************************************************************)
RerunMessages ==
    { CharacterMessage("Elara", "hi", "player", ""),
      CharacterMessage("Elara", "hi", "player", "look around"),
      CharacterMessage("Elara", "hi", "ai", ""),
      CharacterMessage("Bob", "hi", "ai", ""),
      NarratorMessage("dusk", "player"),
      NarratorMessage("dusk", "progress_story"),
      DirectorMessage("Bob", "go", "Bob", "actor_instruction"),
      ReinforcementMessage("calm", "mood:Bob"),
      ContextInvestigationMessage("note", "visual.generate"),
      TimePassageMessage("later", "P1D") }

\* longest history the callers build before a rerun
MaxRerunHistory == 3

PushForRerun ==
    /\ Len(history) < MaxRerunHistory
    /\ \E m \in RerunMessages : PushHistory(<<m>>)

NextRerun ==
    \/ PushForRerun
    \/ RerunBegin
    \/ GenerationAppends
    \/ GenerationEmpty
    \/ GenerationRaises
    \/ Reinforce

SpecRerun == Init /\ [][NextRerun]_vars

\* h without its trailing ReinforcementMessages
RECURSIVE WithoutTrailingReinforcements(_)
WithoutTrailingReinforcements(h) ==
    IF h # <<>> /\ Last(h).typ = "reinforcement"
    THEN WithoutTrailingReinforcements(Front(h))
    ELSE h

\* the last non-Reinforcement message is player-authored and has no from_choice
PlayerAuthoredLast(h) ==
    LET p == WithoutTrailingReinforcements(h)
    IN  p # <<>> /\ Last(p).source = "player" /\ Last(p).from_choice = ""

RerunOver == op = "rerun" /\ rerun_pc = "idle"

\* C4: rerun on a history whose last non-Reinforcement message is a player
\* message without from_choice leaves history exactly as it was, trailing
\* ReinforcementMessages included.
C4_RerunPlayerMessageNoop ==
    (RerunOver /\ PlayerAuthoredLast(pre.history)) => history = pre.history

\* C5: rerun on a player message without from_choice raises no error and emits
\* the notice that the message cannot be rerun.
C5_RerunPlayerMessageNotice ==
    (RerunOver /\ PlayerAuthoredLast(pre.history)) =>
        /\ raised = ""
        /\ \E i \in 1..Len(calls) :
              calls[i] = <<"emit", "system: Cannot rerun player's message">>

\* the last message is a CharacterMessage of an NPC, from a non-player source
NpcMessageLast(h) ==
    /\ h # <<>>
    /\ Last(h).typ = "character"
    /\ Last(h).source # "player"
    /\ get_character(Last(h).name) \in NpcCharacters

\* C6: rerun on a history ending in an NPC's CharacterMessage removes that
\* message and calls talk() of the same character; once the generation has
\* appended its one message, history is as long as before the rerun and the
\* earlier messages are unchanged.
C6_RerunNpcMessage ==
    (op = "rerun" /\ NpcMessageLast(pre.history)) =>
        /\ calls = <<<<"emit", "remove_message">>, <<"talk", Last(pre.history).name>>>>
        /\ rerun_pc = "generate" => history = Front(pre.history)
        /\ (rerun_pc = "idle" /\ raised = "" /\ generated = 1) =>
              /\ Len(history) = Len(pre.history)
              /\ Front(history) = Front(pre.history)
              /\ \A i \in 1..Len(history) : history[i].id # Last(pre.history).id

C6_Witness ==
    /\ op = "rerun" /\ rerun_pc = "idle" /\ raised = "" /\ generated = 1
    /\ NpcMessageLast(pre.history)
    /\ Len(pre.history) >= 2

(***************************************************************************)
(* Context-window assembly over stored scenes.                             *)
(***************************************************************************)
\* longest history of a stored scene
MaxCtxHistory == 3

ContextMessages ==
    { CharacterMessage("Bob", "hi", "ai", ""),
      CharacterMessage("Bob", "tale", "ai", ""),
      [CharacterMessage("Bob", "hi", "ai", "") EXCEPT !.hidden = TRUE],
      NarratorMessage("saga", "progress_story"),
      DirectorMessage("Bob", "go", "Bob", "actor_instruction"),
      ReinforcementMessage("calm", "mood:Bob") }

\* archives of a stored scene: static entries first, "end" non-decreasing
ContextArchives ==
    { <<>>,
      <<ArchiveEntry("lore", "P1D", NoEnd)>>,
      <<ArchiveEntry("tale", "P1D", 1)>>,
      <<ArchiveEntry("lore", "", NoEnd), ArchiveEntry("tale", "P1D", 1),
        ArchiveEntry("saga", "P2D", 2)>>,
      <<ArchiveEntry("tale", "P2D", 3)>> }

\* layer 0 summarizes archive entries 0..end
ContextLayers ==
    { <<>>, <<<<LayerEntry("tale", "PT0S", "P1D", 0)>>>> }

ContextCalls ==
    { ContextArgs(b, kf[1], TRUE, TRUE, n, FALSE, kf[2], "direction", TRUE) :
        b \in {0, 700, 4000}, n \in {0, 2},
        kf \in {<<"False", "chat">>, <<"True", "movie_script">>} }
    \cup { ContextArgs(700, "Bob", FALSE, FALSE, 5, TRUE, "chat",
                       "internal_monologue", e) : e \in BOOLEAN }

InitCtx ==
    /\ \E n \in 0..MaxCtxHistory : \E b \in [1..n -> ContextMessages] :
          /\ history = WithIds(b, 0)
          /\ message_id = n
    /\ archived_history \in ContextArchives
    /\ layered_history \in ContextLayers
    /\ intro \in {"", "Welcome"}
    /\ ts = "P3D"
    /\ op = ""
    /\ raised = ""
    /\ pre = [history |-> <<>>, ts |-> "PT0S"]
    /\ calls = <<>>
    /\ lastDirector = <<>>
    /\ rerun_pc = "idle"
    /\ rerun_message = NoMessage
    /\ popped_reinforcement_messages = <<>>
    /\ generated = 0
    /\ ctx = NoContext
    /\ ret = NoReturn
    /\ sent = <<>>
    /\ SaveInit
    /\ RagInit
    /\ LoopInit

NextCtx == \E a \in ContextCalls : ContextHistory(a)

SpecCtx == InitCtx /\ [][NextCtx]_vars

ContextReturned == op = "context_history" /\ ctx.raised = ""

\* the message a dialogue part renders
MessageOf(part) == CHOOSE m \in Range(history) : m.id = part.ref

\* zero-based history index of the message a dialogue part renders
IndexOf(part) == (CHOOSE i \in 1..Len(history) : history[i].id = part.ref) - 1

\* lines 1741-1742 as they stood when the k-th string of the dialogue lane was
\* admitted: the strings admitted before it are the later ones
AdmittedWithin(parts, k, budget_dialogue) ==
    SumTokens(SubSeq(parts, k + 1, Len(parts))) + count_tokens(MessageOf(parts[k]))
        <= budget_dialogue

NotIntro(part) == part.kind # "intro"

\* a Character message of the dialogue lane from below the summarized index
FloorAdmitted(part) ==
    /\ part.kind = "message"
    /\ MessageOf(part).typ = "character"
    /\ IndexOf(part) < SummarizedTo(archived_history, Len(history))

NotFloorAdmitted(part) == ~FloorAdmitted(part)

\* C2 as stated: the strings context_history(budget=B) returns hold at most B
\* tokens, the Character messages admitted by the assured-dialogue floor aside.
C2_ReturnedWithinBudget ==
    ContextReturned =>
        SumTokens(SelectSeq(ctx.parts_context \o ctx.parts_dialogue, NotFloorAdmitted))
            <= ctx.args.budget

\* C2, amended: apart from the intro, the context lane holds at most int(B/2)
\* tokens, and every message of the dialogue lane was admitted while the
\* strings admitted before it plus count_tokens(message) stayed within
\* int(B/2); the assured-dialogue floor admits nothing over the sub-budget.
C2_LanesWithinSubBudgets ==
    ContextReturned =>
        /\ SumTokens(SelectSeq(ctx.parts_context, NotIntro)) <= ctx.args.budget \div 2
        /\ \A k \in 1..Len(ctx.parts_dialogue) :
              AdmittedWithin(ctx.parts_dialogue, k, ctx.args.budget \div 2)

C2_Witness ==
    /\ ContextReturned
    /\ ctx.stop = "budget"
    /\ ctx.args.budget > 0
    /\ ctx.parts_dialogue # <<>>
    /\ SelectSeq(ctx.parts_context, NotIntro) # <<>>
    /\ SelectSeq(ctx.parts_context, NotIntro) # ctx.parts_context

IsCharacterPart(part) == MessageOf(part).typ = "character"

\* Character messages that are not hidden
ShownCharacters(h) == {i \in 1..Len(h) : h[i].typ = "character" /\ ~h[i].hidden}

Min(a, b) == IF a <= b THEN a ELSE b

\* C3 as stated: the dialogue lane holds at least min(assured_dialogue_num,
\* available Character messages) Character messages, whatever the summarized
\* index and the dialogue sub-budget.
C3_AssuredDialogue ==
    ContextReturned =>
        Len(SelectSeq(ctx.parts_dialogue, IsCharacterPart))
            >= Min(ctx.args.assured_dialogue_num, Cardinality(ShownCharacters(history)))

\* C3, amended: the floor holds against the summarized index only, and counts
\* the Character messages that are not hidden; a message over the dialogue
\* sub-budget ends the walk, floor or not.
C3_AssuredDialogueUnlessBudget ==
    (ContextReturned /\ ctx.stop # "budget") =>
        Len(SelectSeq(ctx.parts_dialogue, IsCharacterPart))
            >= Min(ctx.args.assured_dialogue_num, Cardinality(ShownCharacters(history)))

C3_Witness ==
    /\ ContextReturned
    /\ ctx.stop = "summarized"
    /\ ctx.args.assured_dialogue_num = 2
    /\ Len(SelectSeq(ctx.parts_dialogue, FloorAdmitted)) = 1

(***************************************************************************)
(* The turn-taking loop of a loaded scene.                                 *)
(***************************************************************************)
\* a loaded scene: the loader decides Scene.active, the configuration auto_progress
InitLoop == SceneInit /\ \E a \in BOOLEAN, p \in BOOLEAN : SceneLoop(a, p)

NextLoop ==
    \/ RunGameLoop
    \/ LoopTest
    \/ IterationBegins
    \/ ActorTurn
    \/ Interrupt
    \/ \E name \in Range(actors) : SetNextActor(name)
    \/ \E kind \in {"none", "command", "text", "messages"} : TalkReturns(kind)
    \/ \E exc \in TalkExceptions : TalkRaises(exc)
    \/ StartResumes

SpecLoop == InitLoop /\ [][NextLoop]_vars

\* the awaited talk has just raised exc
JustRaised(exc) == op = "TalkRaises" /\ caught = exc

\* C7: GenerationCancelled raised by the awaited talk is caught by the loop:
\* next_actor is None, skip_to_player true, cancel_requested false, nothing
\* leaves _run_game_loop, and the next step of the loop enters a further
\* iteration.
C7_GenerationCancelledCaught ==
    /\ [](JustRaised("GenerationCancelled") =>
            /\ next_actor = ""
            /\ skip_to_player
            /\ ~cancel_requested
            /\ propagated = ""
            /\ loop_pc = "while"
            /\ active)
    /\ [][JustRaised("GenerationCancelled") => loop_pc' = "try"]_vars

C7_Witness ==
    /\ op = "LoopTest"
    /\ loop_pc = "try"
    /\ caught = "GenerationCancelled"
    /\ before.next_actor # ""
    /\ ~before.skip_to_player
    /\ before.cancel_requested
    /\ skip_to_player

\* the exit, restart and reset signals
ControlSignals == {"ExitScene", "RestartSceneLoop", "ResetScene"}

\* C8: an LLMAccuracyError, a TalemateError or an error of any other class
\* raised by the awaited talk is caught and logged, nothing leaves
\* _run_game_loop and the next step of the loop enters a further iteration;
\* what does leave _run_game_loop is an exit, restart or reset signal.
C8_ErrorsContained ==
    /\ [](\A exc \in {"LLMAccuracyError", "TalemateError", "ClientDisabledError", "ValueError"} :
            JustRaised(exc) =>
                /\ propagated = ""
                /\ loop_pc = "while"
                /\ active
                /\ calls # <<>> /\ calls[1] = "log.error")
    /\ [](loop_pc \in {"raised", "crashed"} => propagated \in ControlSignals)
    /\ [][(op = "TalkRaises" /\ caught \notin ControlSignals) => loop_pc' = "try"]_vars

C8_Witness ==
    /\ op = "LoopTest"
    /\ loop_pc = "try"
    /\ caught = "ValueError"
    /\ ~is_player(active_actor)

(***************************************************************************)
(* Time reconciliation of a loaded scene.                                  *)
(***************************************************************************)
TimeMessages ==
    { TimePassageMessage("later", "P1D"),
      TimePassageMessage("later", "P2D"),
      TimePassageMessage("later", Malformed),
      CharacterMessage("Bob", "hi", "ai", "") }

\* histories of a stored scene
TimeHistories == { <<>>, <<TimePassageMessage("later", Malformed)>> }

\* archives of a stored scene
TimeArchives ==
    { <<>>,
      <<ArchiveEntry("lore", "P1D", NoEnd)>>,
      <<ArchiveEntry("lore", "P1D", NoEnd), ArchiveEntry("lore", "P3D", NoEnd)>>,
      <<ArchiveEntry("lore", "P2D", NoEnd), ArchiveEntry("tale", "P4D", 1)>>,
      <<ArchiveEntry("tale", "", 2), ArchiveEntry("lore", "P3D", NoEnd)>>,
      <<ArchiveEntry("lore", Malformed, NoEnd)>>,
      <<ArchiveEntry("lore", "", NoEnd), ArchiveEntry("tale", "P1D", 0)>> }

InitTime ==
    /\ \E h \in TimeHistories :
          /\ history = WithIds(h, 0)
          /\ message_id = Len(h)
    /\ archived_history \in TimeArchives
    /\ ts \in {"PT0S", "P5D"}
    /\ op = ""
    /\ raised = ""
    /\ pre = [history |-> <<>>, ts |-> "PT0S"]
    /\ calls = <<>>
    /\ lastDirector = <<>>
    /\ rerun_pc = "idle"
    /\ rerun_message = NoMessage
    /\ popped_reinforcement_messages = <<>>
    /\ generated = 0
    /\ layered_history = <<>>
    /\ intro = ""
    /\ ctx = NoContext
    /\ ret = NoReturn
    /\ sent = <<>>
    /\ SaveInit
    /\ RagInit
    /\ LoopInit

PushForTime == \E m \in TimeMessages : PushHistory(<<m>>)

NextTime ==
    \/ PushForTime
    \/ FixTime
    \/ PushArchive("tale")

SpecTime == InitTime /\ [][NextTime]_vars

\* the TimePassage messages of a history
TimePassages(h) == {i \in 1..Len(h) : h[i].typ = "time"}

\* days of the TimePassage messages from message i on
RECURSIVE DaysPassed(_, _)
DaysPassed(h, i) ==
    IF i > Len(h) THEN 0
    ELSE (IF h[i].typ = "time" THEN parse_duration(h[i].ts) ELSE 0) + DaysPassed(h, i + 1)

\* the static entries with a ts that stand before every summarized entry
LeadingStatic(arch) ==
    {i \in 1..Len(arch) : arch[i].ts # "" /\ \A j \in 1..i : arch[j].end = NoEnd}

\* the ts of the last of them, PT0S if there is none
Baseline(arch) ==
    IF LeadingStatic(arch) = {} THEN "PT0S"
    ELSE arch[CHOOSE i \in LeadingStatic(arch) : \A j \in LeadingStatic(arch) : j <= i].ts

\* every duration fix_time has to add is one
Reconcilable ==
    /\ CanParse(Baseline(archived_history))
    /\ \A i \in TimePassages(history) : CanParse(history[i].ts)

\* C9: after fix_time on a history with TimePassage messages the clock is the
\* baseline (the ts of the last leading static archive entry, PT0S if none)
\* plus the durations of all TimePassage messages; without TimePassage
\* messages the clock is the baseline.
C9_ClockIsBaselinePlusJumps ==
    (op = "fix_time" /\ Reconcilable) =>
        IF TimePassages(history) = {}
        THEN ts = Baseline(archived_history)
        ELSE ts = duration_isoformat(parse_duration(Baseline(archived_history))
                                     + DaysPassed(history, 1))

\* history [TimePassage P1D, Character, TimePassage P2D] without an archive
\* reconciled to three days
C9_Witness ==
    /\ op = "fix_time"
    /\ archived_history = <<>>
    /\ Len(history) = 3
    /\ history[1].typ = "time" /\ history[1].ts = "P1D"
    /\ history[2].typ = "character"
    /\ history[3].typ = "time" /\ history[3].ts = "P2D"
    /\ ts = "P3D"

\* C10: fix_time called right after fix_time, the history untouched in
\* between, leaves the clock the first call set.
C10_FixTimeIdempotent ==
    [][(op = "fix_time" /\ op' = "fix_time") => ts' = ts]_vars

\* a second fix_time in a row, where the first had jumps to add up, a static
\* baseline and summarized entries to rewrite
C10_Witness ==
    /\ op = "fix_time"
    /\ pre.op = "fix_time"
    /\ TimePassages(history) # {}
    /\ Reconcilable
    /\ LeadingStatic(archived_history) # {}
    /\ \E i \in 1..Len(archived_history) : archived_history[i].end # NoEnd

\* _fix_time raised in the fix_time call that ran last
FixTimeFailed ==
    /\ op = "fix_time"
    /\ \/ ~CanParse(StartingTime(pre.archived_history, 1, "PT0S"))
       \/ \E i \in TimePassages(pre.history) : ~CanParse(pre.history[i].ts)
    /\ TimePassages(pre.history) # {}

\* C11: when _fix_time raises, fix_time lets no exception out and the clock
\* is the one the call started from.
C11_FixTimeRollsBack ==
    FixTimeFailed => (raised = "" /\ ts = pre.ts /\ calls = <<"log.exception">>)

\* a failed reconciliation of a scene whose clock had moved on
C11_Witness ==
    /\ FixTimeFailed
    /\ pre.ts \notin {"PT0S", "P5D"}
    /\ \E i \in TimePassages(history) : CanParse(history[i].ts)

\* the messages the push_history call that ran last appended
Appended == SelectSeq(history, LAMBDA m : \A i \in 1..Len(pre.history) : pre.history[i].id # m.id)

\* C12: a push_history that returns leaves the clock at the clock before it
\* plus the durations of the TimePassage messages of its batch, and leaves the
\* clock alone when the batch has none.
C12_PushAdvancesClockBySum ==
    (op = "push_history" /\ raised = "") =>
        IF TimePassages(Appended) = {} THEN ts = pre.ts
        ELSE ts = duration_isoformat(parse_duration(pre.ts) + DaysPassed(Appended, 1))

\* a batch of two TimePassage messages pushed onto a clock that had moved
C12_Witness ==
    /\ op = "push_history" /\ raised = ""
    /\ Cardinality(TimePassages(Appended)) = 2
    /\ pre.ts # "PT0S"
    /\ ts = duration_isoformat(parse_duration(pre.ts) + 2)

(***************************************************************************)
(* Deleting and editing messages of a loaded scene.                        *)
(***************************************************************************)
\* longest history of the scenes edited and queried
MaxEditHistory == 3

EditMessages ==
    { TimePassageMessage("later", "P1D"),
      TimePassageMessage("later", "P2D"),
      CharacterMessage("Bob", "hi", "ai", "") }

EditArchives ==
    { <<>>,
      <<ArchiveEntry("lore", "P2D", NoEnd)>>,
      <<ArchiveEntry("tale", "P1D", 1)>> }

InitEdit ==
    /\ \E h \in TimeHistories :
          /\ history = WithIds(h, 0)
          /\ message_id = Len(h)
    /\ archived_history \in EditArchives
    /\ ts = "PT0S"
    /\ op = ""
    /\ raised = ""
    /\ pre = [history |-> <<>>, ts |-> "PT0S"]
    /\ calls = <<>>
    /\ lastDirector = <<>>
    /\ rerun_pc = "idle"
    /\ rerun_message = NoMessage
    /\ popped_reinforcement_messages = <<>>
    /\ generated = 0
    /\ layered_history = <<>>
    /\ intro = ""
    /\ ctx = NoContext
    /\ ret = NoReturn
    /\ sent = <<>>
    /\ SaveInit
    /\ RagInit
    /\ LoopInit

PushForEdit ==
    /\ Len(history) < MaxEditHistory
    /\ \E m \in EditMessages : PushHistory(<<m>>)

NextEdit ==
    \/ PushForEdit
    \/ \E id \in 1..MaxId : DeleteMessage(id)
    \/ \E id \in 1..MaxId : EditMessage(id, "Bob", "edited")

SpecEdit == InitEdit /\ [][NextEdit]_vars

\* the message delete_message or edit_message was called for, if history had it
Target == {i \in 1..Len(pre.history) : pre.history[i].id = pre.id}

\* the TimePassage messages sync_time adds up: those past the last archive entry's end
Unarchived(h, arch) ==
    {i \in TimePassages(h) :
        i > (IF arch # <<>> /\ arch[Len(arch)].end # NoEnd THEN arch[Len(arch)].end ELSE 0)}

\* days of the messages at the indices of S
RECURSIVE DaysOf(_, _)
DaysOf(h, S) ==
    IF S = {} THEN 0
    ELSE LET i == CHOOSE k \in S : TRUE
         IN  parse_duration(h[i].ts) + DaysOf(h, S \ {i})

\* the archive entries that carry a ts
Stamped(arch) == {i \in 1..Len(arch) : arch[i].ts # ""}

\* the clock a synchronisation from scratch arrives at
Synchronised(h, arch) ==
    LET base == IF Stamped(arch) = {} THEN "PT0S"
                ELSE arch[CHOOSE i \in Stamped(arch) : \A j \in Stamped(arch) : j <= i].ts
    IN  IF Unarchived(h, arch) = {} THEN base
        ELSE duration_isoformat(parse_duration(base) + DaysOf(h, Unarchived(h, arch)))

\* C13: delete_message(id) leaves the history without the message of that id,
\* the others in order; when that message was a TimePassage the clock is the
\* one a synchronisation from scratch computes from the remaining history and
\* the archive, otherwise the clock is kept; with no message of that id
\* history and clock are kept.
C13_DeleteMessage ==
    (op = "delete_message" /\ raised = "") =>
        IF Target = {} THEN history = pre.history /\ ts = pre.ts
        ELSE /\ history = SelectSeq(pre.history, LAMBDA m : m.id # pre.id)
             /\ Len(history) = Len(pre.history) - 1
             /\ \A i \in Target :
                   IF pre.history[i].typ = "time"
                   THEN ts = Synchronised(history, archived_history)
                   ELSE ts = pre.ts

\* a TimePassage message deleted from between others, the clock then differing
\* from the one before
C13_Witness ==
    /\ op = "delete_message" /\ raised = ""
    /\ \E i \in Target : pre.history[i].typ = "time" /\ 1 < i /\ i < Len(pre.history)
    /\ TimePassages(history) # {}
    /\ ts # pre.ts

\* C14: edit_message(id, text) on a history with a message of that id changes
\* that message's content only and emits message_edited: length, order, ids,
\* types and sources are kept; with no message of that id the history is
\* kept, nothing is emitted and nothing raised.
C14_EditMessage ==
    op = "edit_message" =>
        /\ raised = ""
        /\ Len(history) = Len(pre.history)
        /\ \A i \in 1..Len(history) :
              IF i \in Target
              THEN /\ history[i] = [pre.history[i] EXCEPT !.name = "Bob", !.text = "edited"]
                   /\ calls[1] = "emit:message_edited"
              ELSE history[i] = pre.history[i]
        /\ Target = {} => (history = pre.history /\ calls = <<>>)

\* a TimePassage message edited between two others
C14_Witness ==
    /\ op = "edit_message"
    /\ \E i \in Target : 1 < i /\ i < Len(history) /\ history[i] # pre.history[i]
                         /\ history[i].typ = "time"

(***************************************************************************)
(* Querying and popping the history.                                       *)
(***************************************************************************)
QueryMessages ==
    { DirectorMessage("Bob", "go", "Bob", "actor_instruction"),
      CharacterMessage("Bob", "hi", "ai", ""),
      CharacterMessage("Elara", "hi", "player", ""),
      NarratorMessage("dusk", "progress_story") }

\* typ (a list of types), source, max_iterations
LastCalls ==
    { <<{"director"}, "", NoLimit>>, <<{"character", "narrator"}, "", 2>>,
      <<{"character"}, "ai", NoLimit>>, <<{"character"}, "player", 1>>,
      <<{"narrator"}, "", 0>>, <<{"character"}, "ai", 2>> }

\* typ, source, max_iterations, max_messages
CollectCalls ==
    { <<"", "", 100, NoLimit>>, <<"character", "", 100, NoLimit>>,
      <<"character", "ai", 2, NoLimit>>, <<"", "", 100, 2>>,
      <<"character", "", 3, 1>>, <<"", "player", 1, NoLimit>> }

\* typ, source, all, max_iterations, reverse
PopCalls ==
    { <<"director", "", FALSE, NoLimit, FALSE>>, <<"director", "", FALSE, NoLimit, TRUE>>,
      <<"character", "", FALSE, NoLimit, FALSE>>, <<"character", "", FALSE, NoLimit, TRUE>>,
      <<"character", "", TRUE, NoLimit, FALSE>>, <<"character", "", TRUE, 2, FALSE>>,
      <<"character", "", TRUE, 2, TRUE>>, <<"character", "player", FALSE, NoLimit, FALSE>>,
      <<"character", "ai", FALSE, 2, TRUE>>, <<"director", "Bob", TRUE, NoLimit, FALSE>>,
      <<"character", "", FALSE, 1, FALSE>>, <<"narrator", "", TRUE, 0, TRUE>> }

PushForQuery ==
    /\ Len(history) < MaxEditHistory
    /\ \E m \in QueryMessages : PushHistory(<<m>>)

NextQuery ==
    \/ PushForQuery
    \/ \E c \in LastCalls : LastMessageOfType(c[1], c[2], c[3])
    \/ \E c \in CollectCalls : CollectMessages(c[1], c[2], c[3], c[4])
    \/ \E c \in PopCalls : PopHistory(c[1], c[2], c[3], c[4], c[5])

SpecQuery == Init /\ [][NextQuery]_vars

\* position in history of the message with that id
Position(h, id) == CHOOSE i \in 1..Len(h) : h[i].id = id

\* the messages among the last n (all of them for NoLimit)
LastWindow(h, n) == {i \in 1..Len(h) : n = NoLimit \/ Len(h) - i < n}

\* the messages of the window that last_message_of_type was asked for
LastMatches ==
    {i \in LastWindow(pre.history, pre.max_iterations) :
        /\ pre.history[i].typ \in pre.typ
        /\ pre.source = "" \/ pre.history[i].source = pre.source}

\* C15: last_message_of_type returns the match with the highest index among
\* the last max_iterations messages (all messages when unbounded), None when
\* that window holds no match, and leaves the history alone.
C15_LastMessageOfType ==
    op = "last_message_of_type" =>
        /\ history = pre.history
        /\ IF LastMatches = {} THEN ret = ReturnedNone
           ELSE /\ ~ret.none
                /\ \E i \in LastMatches :
                      /\ ret.value = <<history[i]>>
                      /\ \A j \in LastMatches : j <= i

\* a bounded window holding one match, an older match outside it and a later
\* message that does not match
C15_Witness ==
    /\ op = "last_message_of_type"
    /\ pre.max_iterations = 2
    /\ Cardinality(LastMatches) = 1
    /\ Len(history) = 3
    /\ 3 \notin LastMatches
    /\ history[1].typ \in pre.typ /\ history[1].source = pre.source

\* the returned messages stand in the order of history
ChronologicalReturn ==
    \A a, b \in 1..Len(ret.value) :
        a < b => Position(history, ret.value[a].id) < Position(history, ret.value[b].id)

\* C16 as stated: collect_messages returns the matches oldest first.
C16_CollectChronological == op = "collect_messages" => ChronologicalReturn

\* C16, amended: collect_messages returns the matches newest first, in the
\* reverse of their order in history, and leaves the history alone.
C16_CollectNewestFirst ==
    op = "collect_messages" =>
        /\ history = pre.history
        /\ \A a \in 1..Len(ret.value) :
              /\ pre.typ = "" \/ ret.value[a].typ = pre.typ
              /\ pre.source = "" \/ ret.value[a].source = pre.source
        /\ \A a, b \in 1..Len(ret.value) :
              a < b => Position(history, ret.value[a].id) > Position(history, ret.value[b].id)

C16_Witness ==
    /\ op = "collect_messages"
    /\ Len(ret.value) = 2
    /\ Len(history) = 3
    /\ pre.typ = "character"

\* positions the scan of pop_history may visit: the first max_iterations from
\* the requested end, all of them when max_iterations is None or 0
PopWindow ==
    {i \in 1..Len(pre.history) :
        \/ pre.max_iterations \in {NoLimit, 0}
        \/ (IF pre.reverse THEN i ELSE Len(pre.history) + 1 - i) <= pre.max_iterations}

PopMatches ==
    {i \in PopWindow :
        /\ pre.history[i].typ = pre.typ
        /\ pre.source = "" \/ pre.history[i].source = pre.source}

\* the match nearest the requested end
PopNearest ==
    {i \in PopMatches : \A j \in PopMatches : IF pre.reverse THEN i <= j ELSE j <= i}

\* the matches pop_history is to remove
PopTargets == IF pre.all THEN PopMatches ELSE PopNearest

\* pre.history without the messages at the positions of S
Without(S) ==
    SelectSeq(pre.history, LAMBDA m : \A i \in S : pre.history[i].id # m.id)

\* C17 as stated: pop_history removes the match nearest the requested end, or
\* every match within the scan bound with all=true, keeps the others in order
\* and returns what it removed.
C17_PopReturnsRemoved ==
    op = "pop_history" =>
        /\ history = Without(PopTargets)
        /\ PopTargets # {} =>
              /\ ~ret.none
              /\ {ret.value[k].id : k \in 1..Len(ret.value)}
                    = {pre.history[i].id : i \in PopTargets}

\* C17, amended: pop_history removes the match nearest the requested end
\* within the scan bound, or every match within the scan bound with all=true,
\* keeps the others in order and returns nothing.
C17_PopRemoves ==
    op = "pop_history" =>
        /\ history = Without(PopTargets)
        /\ Len(history) = Len(pre.history) - Cardinality(PopTargets)
        /\ ret = ReturnedNone

\* one of two matches popped from the front, the other kept
C17_Witness ==
    /\ op = "pop_history"
    /\ pre.reverse /\ ~pre.all
    /\ Cardinality(PopMatches) = 2
    /\ Len(history) = 2

\* C18: pop_history(typ="director", source=None, all=false) on a history
\* without a Director message returns nothing and leaves history as it was.
C18_PopDirectorAbsent ==
    ( /\ op = "pop_history"
      /\ pre.typ = "director" /\ pre.source = "" /\ ~pre.all
      /\ \A i \in 1..Len(pre.history) : pre.history[i].typ # "director" )
    => (ret = ReturnedNone /\ history = pre.history)

C18_Witness ==
    /\ op = "pop_history"
    /\ pre.typ = "director" /\ pre.source = "" /\ ~pre.all
    /\ Len(pre.history) = 3
    /\ \A i \in 1..Len(pre.history) : pre.history[i].typ # "director"
    /\ history = pre.history

\* the game_loop_new_message signals of the last push_history
NewMessageSent == SelectSeq(sent, LAMBDA e : e.signal = "game_loop_new_message")

\* C19: a push_history that appends a batch sends one game_loop_new_message
\* per message of the batch and no other, in batch order, and the receivers of
\* each find every message of the batch in history; a push_history that raises
\* appends nothing and sends nothing.
C19_PushNotifiesAfterAppend ==
    op = "push_history" =>
        IF raised = ""
        THEN /\ Len(NewMessageSent) = Len(Appended)
             /\ \A i \in 1..Len(Appended) :
                   /\ NewMessageSent[i].messages = <<Appended[i].id>>
                   /\ NewMessageSent[i].history = IdsOf(history)
                   /\ \A j \in 1..Len(Appended) :
                         \E k \in 1..Len(NewMessageSent[i].history) :
                             NewMessageSent[i].history[k] = Appended[j].id
        ELSE history = pre.history /\ sent = <<>>

\* a batch of two was appended to a history that held messages before
C19_Witness ==
    /\ op = "push_history" /\ raised = ""
    /\ pre.history # <<>>
    /\ Len(Appended) = 2
    /\ Len(NewMessageSent) = 2
    /\ NewMessageSent[1].messages # NewMessageSent[2].messages

(***************************************************************************)
(* Restore points.                                                         *)
(***************************************************************************)
RestoreMessages ==
    { CharacterMessage("Bob", "hi", "ai", ""),
      DirectorMessage("Bob", "go", "Bob", "actor_instruction"),
      TimePassageMessage("later", "P1D") }

\* archives of a stored scene
RestoreArchives ==
    { <<>>,
      <<ArchiveEntry("lore", "P1D", NoEnd)>>,
      <<ArchiveEntry("lore", "", NoEnd)>>,
      <<ArchiveEntry("lore", "P1D", NoEnd), ArchiveEntry("tale", "P2D", 0)>> }

RestoreLayers == { <<>>, <<<<LayerEntry("saga", "P1D", "P2D", 1)>>>> }

InitRestore ==
    /\ history = <<>>
    /\ archived_history \in RestoreArchives
    /\ ts \in {"PT0S", "P2D"}
    /\ message_id = 0
    /\ op = ""
    /\ raised = ""
    /\ pre = [history |-> <<>>, ts |-> "PT0S"]
    /\ calls = <<>>
    /\ lastDirector = <<>>
    /\ rerun_pc = "idle"
    /\ rerun_message = NoMessage
    /\ popped_reinforcement_messages = <<>>
    /\ generated = 0
    /\ layered_history \in RestoreLayers
    /\ intro = ""
    /\ ctx = NoContext
    /\ ret = NoReturn
    /\ sent = <<>>
    /\ files = [exists |-> FALSE, doc |-> NoDocument]
    /\ restore_from \in {"", RestorePoint}
    /\ saved_scene = NoScene
    /\ RagInit
    /\ LoopInit

PushForRestore ==
    /\ Len(history) < MaxEditHistory
    /\ \E m \in RestoreMessages : PushHistory(<<m>>)

NextRestore ==
    \/ PushForRestore
    \/ SaveRestore(RestorePoint)
    \/ Restore

SpecRestore == InitRestore /\ [][NextRestore]_vars

\* restore loaded the file of the restore point
Restored == op = "restore" /\ pre.restore_from # "" /\ pre.exists

\* C20: a restore that loads a serialized scene leaves history,
\* archived_history, layered_history and the clock as they were when the scene
\* was serialized.
C20_RoundTrip ==
    Restored =>
        /\ history = saved_scene.history
        /\ archived_history = saved_scene.archived_history
        /\ layered_history = saved_scene.layered_history
        /\ ts = saved_scene.ts

(***************************************************************************)
(* Message ids.  Every message is created without an explicit id and kept  *)
(* in history, so history lists the ids get_message_id issued, in order.   *)
(***************************************************************************)
IdMessages ==
    { CharacterMessage("Bob", "hi", "ai", ""), CharacterMessage("Elara", "hi", "player", ""),
      NarratorMessage("dusk", "progress_story") }

CreateMessage ==
    /\ Len(history) < MaxEditHistory
    /\ \E m \in IdMessages : PushHistory(<<m>>)

NextIds == CreateMessage \/ ResetMessageId

SpecIds == Init /\ [][NextIds]_vars

\* C21: every id get_message_id issues is greater than every id it issued
\* before, so no id is issued twice, whatever calls of get_message_id and
\* reset_message_id came before.
C21_IdsUniqueMonotonic ==
    \A i, j \in 1..Len(history) : i < j => history[i].id < history[j].id

(***************************************************************************)
(* Receivers of the signals of push_history.                               *)
(***************************************************************************)
PushReceiverRaises == \E b \in Batches(StoreMessages) : PushHistoryReceiverRaises(b)

NextReceivers == Push \/ PushReceiverRaises

SpecReceivers == Init /\ [][NextReceivers]_vars

\* a receiver raised during the last push_history
ReceiverRaised == op = "push_history" /\ "receiver" \in DOMAIN pre

\* C22: when a receiver of history_add or game_loop_new_message raises during
\* push_history, nothing escapes push_history and every message of the batch
\* still gets its game_loop_new_message.
C22_ReceiverErrorContained ==
    ReceiverRaised =>
        /\ raised = ""
        /\ Len(NewMessageSent) = Len(Appended)

(***************************************************************************)
(* The operations on the history store and the clock, side by side.        *)
(***************************************************************************)
\* messages created in one behaviour
MaxClockHistory == 2

ClockMessages ==
    { TimePassageMessage("later", "P1D"),
      CharacterMessage("Bob", "hi", "ai", "") }

InitClock ==
    /\ history = <<>>
    /\ message_id = 0
    /\ archived_history \in {<<>>, <<ArchiveEntry("lore", "P2D", NoEnd)>>}
    /\ ts = "PT0S"
    /\ op = ""
    /\ raised = ""
    /\ pre = [history |-> <<>>, ts |-> "PT0S"]
    /\ calls = <<>>
    /\ lastDirector = <<>>
    /\ rerun_pc = "idle"
    /\ rerun_message = NoMessage
    /\ popped_reinforcement_messages = <<>>
    /\ generated = 0
    /\ layered_history = <<>>
    /\ intro = ""
    /\ ctx = NoContext
    /\ ret = NoReturn
    /\ sent = <<>>
    /\ SaveInit
    /\ RagInit
    /\ LoopInit

PushForClock ==
    /\ message_id < MaxClockHistory
    /\ \E m \in ClockMessages : PushHistory(<<m>>)

\* the summarizer archives while the archive is shorter than the history may get
ArchiveForClock ==
    /\ Len(archived_history) < MaxClockHistory - 1
    /\ PushArchive("tale")

NextClock ==
    \/ PushForClock
    \/ \E id \in 1..MaxClockHistory : DeleteMessage(id)
    \/ EditMessage(1, "Bob", "edited")
    \/ PopHistory("time", "", FALSE, NoLimit, FALSE)
    \/ LastMessageOfType({"time"}, "", 1)
    \/ CollectMessages("time", "", 1, NoLimit)
    \/ ContextHistory(ContextArgs(0, "False", TRUE, TRUE, 0, FALSE, "chat", "direction", FALSE))
    \/ ArchiveForClock
    \/ FixTime
    \/ SyncTime

SpecClock == InitClock /\ [][NextClock]_vars

\* the last operation removed a TimePassage message by id
DeletedTimePassage ==
    /\ op = "delete_message"
    /\ \E i \in 1..Len(pre.history) :
          pre.history[i].id = pre.id /\ pre.history[i].typ = "time"

\* the last operation appended a TimePassage message
PushedTimePassage ==
    /\ op = "push_history"
    /\ \E i \in 1..Len(Appended) : Appended[i].typ = "time"

\* C23: an operation that leaves the clock different from what it was is a
\* push_history of a TimePassage message, a delete_message of a TimePassage
\* message, sync_time or fix_time; edit_message, pop_history, the queries,
\* context_history, push_archive and every other push or delete leave it alone.
C23_ClockFrame ==
    ts # pre.ts => (PushedTimePassage \/ DeletedTimePassage \/ op \in {"sync_time", "fix_time"})

\* pop_history took a TimePassage message away and the clock still counts it
C23_Witness ==
    /\ op = "pop_history"
    /\ pre.typ = "time"
    /\ Len(history) < Len(pre.history)
    /\ ts = pre.ts
    /\ ts # "PT0S"

\* start takes over from a _run_game_loop that raised exc
StartHandles(exc) == loop_pc = "raised" /\ propagated = exc /\ op' = "start"

SyncArchives ==
    { <<>>,
      <<ArchiveEntry("lore", "P1D", NoEnd)>>,
      <<ArchiveEntry("lore", "", NoEnd)>>,
      <<ArchiveEntry("tale", "P1D", 1)>>,
      <<ArchiveEntry("lore", "P2D", NoEnd), ArchiveEntry("tale", "", 1)>>,
      <<ArchiveEntry("tale", "P3D", 2), ArchiveEntry("lore", "", NoEnd)>> }

InitSync ==
    /\ history = <<>>
    /\ message_id = 0
    /\ archived_history \in SyncArchives
    /\ ts \in {"PT0S", "P5D"}
    /\ op = ""
    /\ raised = ""
    /\ pre = [history |-> <<>>, ts |-> "PT0S"]
    /\ calls = <<>>
    /\ lastDirector = <<>>
    /\ rerun_pc = "idle"
    /\ rerun_message = NoMessage
    /\ popped_reinforcement_messages = <<>>
    /\ generated = 0
    /\ layered_history = <<>>
    /\ intro = ""
    /\ ctx = NoContext
    /\ ret = NoReturn
    /\ sent = <<>>
    /\ SaveInit
    /\ RagInit
    /\ LoopInit

NextSync == PushForEdit \/ SyncTime

SpecSync == InitSync /\ [][NextSync]_vars

\* C25: sync_time leaves the clock at the ts of the last archive entry that
\* carries one ("PT0S" when none does) plus the durations of the TimePassage
\* messages at or after the end index of the last archive entry (from the
\* start of history when there is no archive or the entry has no end).
C25_SyncTime ==
    (op = "sync_time" /\ raised = "") =>
        /\ ts = Synchronised(history, archived_history)
        /\ history = pre.history
        /\ archived_history = pre.archived_history

\* the last entry has an end but no ts, an earlier one gives the baseline; one
\* TimePassage lies before the end index and one after
C25_Witness ==
    /\ op = "sync_time" /\ raised = ""
    /\ Len(archived_history) = 2
    /\ archived_history[2].ts = "" /\ archived_history[2].end = 1
    /\ Len(history) = 3
    /\ history[1].typ = "time" /\ history[3].typ = "time"
    /\ ts # pre.ts

(***************************************************************************)
(* The ts fix_time gives the summarized archive entries.                   *)
(***************************************************************************)
\* the TimePassage messages whose history index is below end
Preceding(h, end) == {i \in TimePassages(h) : i - 1 < end}

\* the baseline plus every jump below end
CumulativeBelow(h, arch, end) ==
    duration_isoformat(parse_duration(Baseline(arch)) + DaysOf(h, Preceding(h, end)))

\* the ts handed on to entry k: that of the closest earlier summarized entry
\* with a jump below its end, the baseline if there is none
RunningBaseline(h, arch, k) ==
    LET earlier == {j \in 1..(k - 1) :
                       arch[j].end # NoEnd /\ Preceding(h, arch[j].end) # {}}
    IN  IF earlier = {} THEN Baseline(arch)
        ELSE CumulativeBelow(h, arch,
                 arch[CHOOSE j \in earlier : \A i \in earlier : i <= j].end)

ReconciledTs(h, arch, k) ==
    IF Preceding(h, arch[k].end) # {}
    THEN CumulativeBelow(h, arch, arch[k].end)
    ELSE RunningBaseline(h, arch, k)

\* C26: after fix_time every archive entry with an end index carries the
\* cumulative duration of the latest TimePassage whose history index is
\* strictly below that end, or the running baseline when no TimePassage
\* precedes it.
C26_FixTimeStampsArchive ==
    (op = "fix_time" /\ Reconcilable) =>
        \A k \in 1..Len(archived_history) :
            archived_history[k].end # NoEnd =>
                archived_history[k].ts
                    = ReconciledTs(history, archived_history, k)

\* the same for the histories that hold a TimePassage message
C26_StampsWhenJumpsExist ==
    (op = "fix_time" /\ Reconcilable /\ TimePassages(history) # {}) =>
        \A k \in 1..Len(archived_history) :
            archived_history[k].end # NoEnd =>
                archived_history[k].ts
                    = ReconciledTs(history, archived_history, k)

(***************************************************************************)
(* Rerun and the ReinforcementMessages at the tail of history.             *)
(***************************************************************************)
\* the question:character pairs of the trailing ReinforcementMessages of h,
\* the last message first
RECURSIVE TrailingSources(_)
TrailingSources(h) ==
    IF h # <<>> /\ Last(h).typ = "reinforcement"
    THEN <<Last(h).source>> \o TrailingSources(Front(h))
    ELSE <<>>

\* the pairs update_reinforcement was called for, in call order
RECURSIVE ReinforcedSources(_)
ReinforcedSources(cs) ==
    IF cs = <<>> THEN <<>>
    ELSE (IF Head(cs)[1] = "update_reinforcement" THEN <<Head(cs)[2]>> ELSE <<>>)
         \o ReinforcedSources(Tail(cs))

\* no call of update_reinforcement is followed by a call of another kind
ReinforcedLast(cs) ==
    \A i, j \in 1..Len(cs) :
        (i < j /\ cs[i][1] = "update_reinforcement") => cs[j][1] = "update_reinforcement"

\* C27: a rerun regenerates every ReinforcementMessage it popped from the
\* tail of history exactly once, through update_reinforcement for its
\* question:character pair, and only after the regeneration of the main
\* message is over.
C27_ReinforcementsRegenerated ==
    (RerunOver /\ raised = "") =>
        /\ ReinforcedSources(calls) = TrailingSources(pre.history)
        /\ ReinforcedLast(calls)
        /\ popped_reinforcement_messages = <<>>

\* the branches of rerun that reach the loop over the popped messages
ReachesReinforcement(h) ==
    LET p == WithoutTrailingReinforcements(h)
    IN  /\ p # <<>>
        /\ ~PlayerAuthoredLast(h)
        /\ Last(p).typ \in {"character", "narrator", "director", "context_investigation"}

\* the same for the reruns that reach the loop
C27_RegeneratedWhenReached ==
    (RerunOver /\ raised = "" /\ ReachesReinforcement(pre.history)) =>
        /\ ReinforcedSources(calls) = TrailingSources(pre.history)
        /\ ReinforcedLast(calls)
        /\ popped_reinforcement_messages = <<>>

(***************************************************************************)
(* Cancelling a generation: Scene.interrupt and the checkpoints of         *)
(* Scene.continue_actions the agents pass during the awaited talk.         *)
(***************************************************************************)
\* faulty variant: the checkpoint raises whether or not a cancel was requested
continue_actions_always_raises(cancel) ==
    [cancel_requested |-> FALSE, raised |-> "GenerationCancelled"]

\* lines 2789-2792: the flag continue_actions leaves and what it raises
continue_actions(cancel) ==
    [cancel_requested |-> IF cancel THEN FALSE ELSE cancel,
     raised |-> IF cancel THEN "GenerationCancelled" ELSE ""]

\* an agent at work in the awaited talk calls continue_actions; what it raises
\* leaves talk and reaches the except clauses of the iteration
ContinueActions ==
    /\ loop_pc = "talk"
    /\ op' = "continue_actions"
    /\ LET c == continue_actions(cancel_requested)
           s == [pc |-> "while", propagated |-> "",
                 signal_game_loop |-> signal_game_loop,
                 skip_to_player |-> skip_to_player,
                 next_actor |-> next_actor,
                 cancel_requested |-> c.cancel_requested,
                 calls |-> <<>>]
           r == IF c.raised = "" THEN [s EXCEPT !.pc = "talk"]
                ELSE GameLoopExcept(c.raised, s)
       IN  /\ raised' = c.raised
           /\ caught' = IF c.raised = "" THEN caught ELSE c.raised
           /\ before' = IF c.raised = "" THEN before
                        ELSE [next_actor |-> next_actor, skip_to_player |-> skip_to_player,
                              cancel_requested |-> cancel_requested]
           /\ loop_pc' = r.pc
           /\ propagated' = r.propagated
           /\ signal_game_loop' = r.signal_game_loop
           /\ skip_to_player' = r.skip_to_player
           /\ next_actor' = r.next_actor
           /\ cancel_requested' = r.cancel_requested
           /\ calls' = r.calls
    /\ UNCHANGED <<actor_idx, turn_start, active, active_actor, auto_progress>>
    /\ UNCHANGED <<storeVars, pre, lastDirector, rerunVars, ctxVars, ret, sent, saveVars, ragVars,
                   first_loop>>

NextCancel ==
    \/ RunGameLoop
    \/ LoopTest
    \/ IterationBegins
    \/ ActorTurn
    \/ Interrupt
    \/ ContinueActions
    \/ \E name \in Range(actors) : SetNextActor(name)
    \/ \E kind \in {"none", "command", "text", "messages"} : TalkReturns(kind)
    \/ StartResumes

SpecCancel == InitLoop /\ [][NextCancel]_vars

\* C28: a checkpoint of continue_actions reached after an interrupt raises
\* GenerationCancelled and leaves cancel_requested false; a checkpoint reached
\* with no interrupt pending raises nothing; cancel_requested is set by
\* interrupt alone, so one interrupt gives one cancellation.
C28_OneCancellationPerInterrupt ==
    /\ [][op' = "continue_actions" =>
            /\ cancel_requested => raised' = "GenerationCancelled"
            /\ ~cancel_requested => raised' = ""
            /\ ~cancel_requested']_vars
    /\ [][(cancel_requested' /\ ~cancel_requested) => op' = "interrupt"]_vars

\* a checkpoint passed without raising, in the generation that follows a
\* cancellation
C28_Witness ==
    /\ op = "continue_actions"
    /\ raised = ""
    /\ caught = "GenerationCancelled"
    /\ before.cancel_requested
    /\ ~cancel_requested
    /\ loop_pc = "talk"

(***************************************************************************)
(* Who talks after a cancellation.                                         *)
(***************************************************************************)
\* this step of the loop hands the turn to an actor: its talk is awaited next
TalkDispatched == loop_pc = "actor" /\ loop_pc' = "talk"

\* C29: once the loop has handled a cancellation, the first actor whose talk
\* is invoked is the player; no NPC generation comes before the player's turn.
C29_PlayerFirstAfterCancel ==
    [][(TalkDispatched /\ caught = "GenerationCancelled") => is_player(active_actor')]_vars

\* the player's turn dispatched after the cancellation of a generation that
\* had an NPC as next_actor, with auto_progress on
C29_Witness ==
    /\ op = "ActorTurn"
    /\ loop_pc = "talk"
    /\ caught = "GenerationCancelled"
    /\ is_player(active_actor)
    /\ before.next_actor \in NpcCharacters
    /\ auto_progress

(***************************************************************************)
(* Who gets a turn: auto_progress and next_actor.                          *)
(***************************************************************************)
\* C30: with auto_progress off no NPC's talk is invoked; with auto_progress on
\* and next_actor set, only the actor of that name has its talk invoked.
C30_TurnGating ==
    [][TalkDispatched =>
          /\ ~auto_progress => is_player(active_actor')
          /\ (auto_progress /\ next_actor # "") => active_actor' = next_actor]_vars

\* an NPC named by next_actor gets the turn, the player having been passed over
C30_Witness ==
    /\ op = "ActorTurn"
    /\ loop_pc = "talk"
    /\ auto_progress
    /\ next_actor \in NpcCharacters
    /\ active_actor = next_actor
    /\ actor_idx = 2

\* the player's turn with auto_progress off, after an NPC was passed over in
\* the pass before
C30_WitnessPlayerOnly ==
    /\ op = "ActorTurn"
    /\ loop_pc = "talk"
    /\ ~auto_progress
    /\ is_player(active_actor)
    /\ history # <<>>

(***************************************************************************)
(* The player acting as another character.                                 *)
(***************************************************************************)
\* C31: ActedAsCharacter raised by the player's talk ends the pass over the
\* actors: no later actor gets a turn in it, no error is reported, nothing
\* leaves the loop, and the loop goes on with a new pass from the first actor.
C31_ActedAsCharacterEndsPass ==
    /\ [](JustRaised("ActedAsCharacter") =>
            /\ loop_pc = "while"
            /\ propagated = ""
            /\ active
            /\ \A i \in 1..Len(calls) : calls[i] \notin {"log.error", "log.warning",
                                                        "emit:system:error",
                                                        "emit:status:error"})
    /\ [][JustRaised("ActedAsCharacter") => loop_pc' = "try"]_vars
    /\ [][(caught = "ActedAsCharacter" /\ TalkDispatched) => op = "IterationBegins" \/ op = "ActorTurn"]_vars
    /\ [][(caught = "ActedAsCharacter" /\ op = "LoopTest" /\ loop_pc = "try") =>
            (loop_pc' = "actor" /\ actor_idx' = 1)]_vars

\* the new pass after the player acted as the narrator has reached an NPC's
\* turn
C31_Witness ==
    /\ caught = "ActedAsCharacter"
    /\ op = "ActorTurn"
    /\ loop_pc = "talk"
    /\ ~is_player(active_actor)
    /\ history # <<>> /\ Last(history).typ = "narrator" /\ Last(history).source = "player"

(***************************************************************************)
(* What the dialogue lane of context_history shows.                        *)
(***************************************************************************)
\* longest history the dialogue lane is assembled from
MaxDialogueHistory == 3




DialogueMessages ==
    { CharacterMessage("Bob", "hi", "ai", ""),
      [CharacterMessage("Bob", "hi", "ai", "") EXCEPT !.hidden = TRUE],
      DirectorMessage("Bob", "go", "Bob", "actor_instruction"),
      DirectorMessage("Bob", "go", "Elara", "actor_instruction"),
      DirectorMessage("", "go", "__scene__", "scene_direction"),
      ReinforcementMessage("calm", "mood:Bob"),
      ContextInvestigationMessage("note", "visual.generate") }

DialogueCalls ==
    { ContextArgs(4000, d, i, r, 5, FALSE, "chat", "direction", FALSE) :
        d \in {"False", "True", "Bob"}, i \in BOOLEAN, r \in BOOLEAN }

InitDialogue ==
    /\ \E n \in 0..MaxDialogueHistory : \E b \in [1..n -> DialogueMessages] :
          /\ \A i, j \in 1..n :
                (b[i].typ = "director" /\ b[i].source = b[j].source) => i = j
          /\ history = WithIds(b, 0)
          /\ message_id = n
    /\ archived_history = <<>>
    /\ layered_history = <<>>
    /\ intro = ""
    /\ ts = "P3D"
    /\ op = ""
    /\ raised = ""
    /\ pre = [history |-> <<>>, ts |-> "PT0S"]
    /\ calls = <<>>
    /\ lastDirector = <<>>
    /\ rerun_pc = "idle"
    /\ rerun_message = NoMessage
    /\ popped_reinforcement_messages = <<>>
    /\ generated = 0
    /\ ctx = NoContext
    /\ ret = NoReturn
    /\ sent = <<>>
    /\ SaveInit
    /\ RagInit
    /\ LoopInit

NextDialogue == \E a \in DialogueCalls : ContextHistory(a)

SpecDialogue == InitDialogue /\ [][NextDialogue]_vars

\* the messages the dialogue lane renders
Rendered == {MessageOf(ctx.parts_dialogue[k]) : k \in 1..Len(ctx.parts_dialogue)}

\* C32: the dialogue lane renders no hidden message; a ReinforcementMessage
\* only when reinforcements are included; a ContextInvestigationMessage only
\* when keep_context_investigation is true; a DirectorMessage only when
\* keep_director is set, the message names a character and, keep_director
\* being a source string, the source of the message equals it.
C32_DialogueLaneFilters ==
    ContextReturned =>
        \A m \in Rendered :
            /\ ~m.hidden
            /\ m.typ = "reinforcement" => ctx.args.include_reinfocements
            /\ m.typ = "context_investigation" => ctx.args.keep_context_investigation
            /\ m.typ = "director" =>
                  /\ ctx.args.keep_director # "False"
                  /\ character_name(m) # ""
                  /\ ctx.args.keep_director # "True" => m.source = ctx.args.keep_director

\* keep_director names a source: the Director message of that source is
\* rendered, the one of another source and the one naming no character are not
C32_Witness ==
    /\ ContextReturned
    /\ ctx.args.keep_director = "Bob"
    /\ Len(history) = 3
    /\ \A i \in 1..3 : history[i].typ = "director"
    /\ history[1].source = "Elara"
    /\ character_name(history[2]) = ""
    /\ Rendered = {history[3]}

(***************************************************************************)
(* The context lane of context_history over layered summaries.             *)
(***************************************************************************)
\* archive entries of a long-running scene
MaxLayerArchive == 5

\* the archive of a stored scene: entry k summarizes history up to index k
LayerArchive(n) == [k \in 1..n |-> ArchiveEntry("lore", "P1D", k)]

\* layer 0 with one entry for each of the first n archive entries
BaseLayer(n) == [k \in 1..n |-> LayerEntry("lore", "PT0S", "P1D", k - 1)]

\* layered histories of a stored scene: a layer entry's end is the index of
\* the last entry of the layer below (the archive for layer 0) it summarizes
LayerHistories ==
    { <<BaseLayer(1)>>,
      <<BaseLayer(3), <<LayerEntry("lore", "PT0S", "P1D", 1)>>>>,
      <<BaseLayer(3), <<LayerEntry("lore", "PT0S", "P1D", 1)>>, <<>>>>,
      <<BaseLayer(4),
        <<LayerEntry("lore", "PT0S", "P1D", 0), LayerEntry("lore", "PT0S", "P2D", 1),
          LayerEntry("lore", "PT0S", "P1D", 2)>>,
        <<LayerEntry("lore", "PT0S", "P1D", 1)>>>>,
      <<BaseLayer(4),
        <<LayerEntry("lore", "PT0S", "P1D", 1), LayerEntry("lore", "PT0S", "P1D", 3)>>,
        <<LayerEntry("lore", "PT0S", "P1D", 1)>>>> }

LayerCalls ==
    { ContextArgs(b, "False", TRUE, TRUE, 0, l, "chat", "direction", e) :
        b \in {20, 4000}, l \in BOOLEAN, e \in BOOLEAN }

InitLayers ==
    /\ history = <<>>
    /\ message_id = 0
    /\ \E n \in (MaxLayerArchive - 1)..MaxLayerArchive : archived_history = LayerArchive(n)
    /\ layered_history \in LayerHistories
    /\ intro \in {"", "Welcome"}
    /\ ts \in {"P3D", "P5D"}
    /\ op = ""
    /\ raised = ""
    /\ pre = [history |-> <<>>, ts |-> "PT0S"]
    /\ calls = <<>>
    /\ lastDirector = <<>>
    /\ rerun_pc = "idle"
    /\ rerun_message = NoMessage
    /\ popped_reinforcement_messages = <<>>
    /\ generated = 0
    /\ ctx = NoContext
    /\ ret = NoReturn
    /\ sent = <<>>
    /\ SaveInit
    /\ RagInit
    /\ LoopInit

NextLayers == \E a \in LayerCalls : ContextHistory(a)

SpecLayers == InitLayers /\ [][NextLayers]_vars

\* zero-based index of the first entry of layer i (from 1) that the layer
\* above has not summarized
Unconsumed(layers, i) ==
    IF i = Len(layers) \/ layers[i + 1] = <<>> THEN 0
    ELSE Last(layers[i + 1]).end + 1

\* (layer, index) of the entries to show, from layer i down to layer 0
RECURSIVE UnconsumedEntries(_, _)
UnconsumedEntries(layers, i) ==
    IF i < 1 THEN <<>>
    ELSE [k \in 1..(Len(layers[i]) - Unconsumed(layers, i)) |->
             <<"layer", i - 1, Unconsumed(layers, i) + k - 1>>]
         \o UnconsumedEntries(layers, i - 1)

\* the archive entries layer 0 has not summarized
UnsummarizedArchive(arch, layers) ==
    [k \in 1..(Len(arch) - (Last(layers[1]).end + 1)) |->
        <<"archive", -1, Last(layers[1]).end + k>>]

IsSummaryPart(part) == part.kind \in {"layer", "archive"}

\* (kind, layer, index) of the summaries the context lane shows, in order
ShownSummaries ==
    LET parts == SelectSeq(ctx.parts_context, IsSummaryPart)
    IN  [k \in 1..Len(parts) |-> <<parts[k].kind, parts[k].layer, parts[k].ref>>]

\* context_history used the layered summaries and trimmed nothing
LayersShown ==
    /\ ContextReturned
    /\ ~NoLayers(layered_history, ctx.args)
    /\ ctx.args.budget = 4000

\* C33: with layered summaries in use the context lane holds, from the most
\* summarized layer down to layer 0, exactly the entries of each layer that
\* the layer above has not summarized, then exactly the archive entries after
\* the end of layer 0's last entry; nothing summarized is shown twice or left
\* out.
C33_LayeredContextLane ==
    LayersShown =>
        ShownSummaries = UnconsumedEntries(layered_history, Len(layered_history))
                         \o UnsummarizedArchive(archived_history, layered_history)

\* every layer below the top one has an entry the layer above has not summarized
EveryLayerOpen(layers) ==
    \A i \in 1..Len(layers) :
        layers[i] # <<>> => Unconsumed(layers, i) < Len(layers[i])

\* the same for layered histories in which no layer is summarized whole
C33_LaneWhenEveryLayerOpen ==
    (LayersShown /\ EveryLayerOpen(layered_history)) =>
        ShownSummaries = UnconsumedEntries(layered_history, Len(layered_history))
                         \o UnsummarizedArchive(archived_history, layered_history)

\* three layers, each with entries left to show
C33_ThreeLayersShown ==
    /\ LayersShown
    /\ Len(layered_history) = 3
    /\ EveryLayerOpen(layered_history)
    /\ layered_history[3] # <<>>
    /\ Len(ShownSummaries) >= 4

(***************************************************************************)
(* The clock against the live history, from an empty scene on.             *)
(***************************************************************************)
\* messages created in one behaviour
MaxLiveMessages == 3

LiveMessages ==
    { TimePassageMessage("later", "P1D"),
      TimePassageMessage("later", "P2D"),
      CharacterMessage("Bob", "hi", "ai", "") }

PushLive ==
    /\ message_id < MaxLiveMessages
    /\ \E m \in LiveMessages : PushHistory(<<m>>)

\* lines 1274-1297: push_archive with the entry the caller hands it
PushArchiveEntry(entry) ==
    /\ rerun_pc = "idle"
    /\ Len(archived_history) < MaxArchive
    /\ archived_history' = Append(archived_history, entry)
    /\ op' = "push_archive"
    /\ raised' = ""
    /\ pre' = [history |-> history, ts |-> ts]
    /\ calls' = <<"archive_add", "emit:archived_history">>
    /\ UNCHANGED <<history, ts, message_id, lastDirector, rerunVars>>
    /\ UNCHANGED restVars

\* an entry stamped with the clock and the length of history of the moment
ArchiveLive ==
    /\ Len(archived_history) < MaxLiveMessages - 2
    /\ PushArchiveEntry(ArchiveEntry("tale", ts, Len(history)))

NextLive ==
    \/ PushLive
    \/ \E id \in 1..MaxLiveMessages : DeleteMessage(id)
    \/ \E id \in 1..MaxLiveMessages : EditMessage(id, "Bob", "edited")
    \/ ArchiveLive

SpecLive == Init /\ [][NextLive]_vars

\* C34: from an empty scene on, whatever is pushed, edited, deleted and
\* archived (entries stamped with the clock and history length of the
\* moment), the clock is the sum of the durations of the TimePassage messages
\* in the live history.
C34_ClockIsLiveSum ==
    parse_duration(ts) = DaysPassed(history, 1)

\* the same while nothing has been archived
C34_LiveSumWithoutArchive ==
    archived_history = <<>> => parse_duration(ts) = DaysPassed(history, 1)

\* the same while no message has been deleted after an archive entry was pushed
C34_LiveSumUntilDelete ==
    Len(history) = message_id => parse_duration(ts) = DaysPassed(history, 1)

(***************************************************************************)
(* Rerun on histories with nothing to rerun.                               *)
(***************************************************************************)
\* h holds ReinforcementMessages only
OnlyReinforcements(h) ==
    h # <<>> /\ \A i \in 1..Len(h) : h[i].typ = "reinforcement"

\* what the awaited collaborators raise, as opposed to rerun itself
CollaboratorErrors == {"GenerationCancelled", "LLMAccuracyError"}

\* C35: rerun raises nothing of its own on any history; on the empty history
\* and on a history of ReinforcementMessages only it leaves history as it was.
C35_RerunNeverRaises ==
    RerunOver =>
        /\ raised \in {""} \cup CollaboratorErrors
        /\ (pre.history = <<>> \/ OnlyReinforcements(pre.history)) =>
              history = pre.history

\* the same on the empty history
C35_RerunOnEmptyHistory ==
    (RerunOver /\ pre.history = <<>>) => (raised = "" /\ history = <<>>)

(***************************************************************************)
(* push_history that raises.                                               *)
(***************************************************************************)
\* messages of a batch, one of them with a duration that is none
BatchMessages ==
    { DirectorMessage("Bob", "go", "Bob", "actor_instruction"),
      CharacterMessage("Bob", "hi", "ai", ""),
      TimePassageMessage("later", "P1D"),
      TimePassageMessage("later", Malformed) }

PushBatch == \E b \in Batches(BatchMessages) : PushHistory(b)

NextBatch == PushBatch

SpecBatch == Init /\ [][NextBatch]_vars

PushRaised == op = "push_history" /\ raised # ""

\* C36: a push_history that raises leaves history and the clock as they were
\* before the call: no Director message evicted, no part of the batch's
\* durations added.
C36_PushAllOrNothing ==
    PushRaised => (history = pre.history /\ ts = pre.ts)

\* a raising push_history appends none of its batch
C36_NothingAppended ==
    PushRaised =>
        /\ Len(history) <= Len(pre.history)
        /\ \A i \in 1..Len(history) : \E j \in 1..Len(pre.history) : history[i] = pre.history[j]

(***************************************************************************)
(* Interrupts that no generation was checking for.                         *)
(***************************************************************************)
\* the talk of an actor has just been dispatched: nothing has happened in
\* this generation yet
JustDispatched == op = "ActorTurn" /\ loop_pc = "talk"

\* C37: a GenerationCancelled is caused by an interrupt issued during the
\* same generation; the first checkpoint of a generation, reached before any
\* interrupt was issued in it, does not raise for an interrupt left over from
\* the player's input wait or from an earlier generation.
C37_CancellationsAreFresh ==
    [][(JustDispatched /\ op' = "continue_actions") => raised' = ""]_vars

(***************************************************************************)
(* The order of the archive's ts after fix_time.                           *)
(***************************************************************************)
\* the archive entries with an end index and a ts that is a duration
Summarized(arch) == {i \in 1..Len(arch) : arch[i].end # NoEnd /\ CanParse(arch[i].ts)}

EndsNonDecreasing(arch) ==
    \A i, j \in 1..Len(arch) :
        (i < j /\ arch[i].end # NoEnd /\ arch[j].end # NoEnd) => arch[i].end <= arch[j].end

\* the entries with an end carry ts in non-decreasing order, none after the clock
TsOrdered(arch, clock) ==
    /\ \A i, j \in Summarized(arch) :
          i < j => parse_duration(arch[i].ts) <= parse_duration(arch[j].ts)
    /\ \A i \in Summarized(arch) : parse_duration(arch[i].ts) <= parse_duration(clock)

\* C38: after fix_time on an archive with non-decreasing end indices (the
\* durations of the history being non-negative) the ts of the entries with an
\* end are non-decreasing in archive order and none exceeds the clock.
C38_ArchiveTsOrdered ==
    (op = "fix_time" /\ Reconcilable /\ EndsNonDecreasing(archived_history)) =>
        TsOrdered(archived_history, ts)

\* the same for the histories that hold a TimePassage message
C38_OrderedWhenJumpsExist ==
    (op = "fix_time" /\ Reconcilable /\ EndsNonDecreasing(archived_history)
       /\ TimePassages(history) # {}) =>
        TsOrdered(archived_history, ts)

\* two summarized entries, restamped by a fix_time that had jumps to add up
C38_TwoEntriesRestamped ==
    /\ op = "fix_time" /\ Reconcilable /\ EndsNonDecreasing(archived_history)
    /\ TimePassages(history) # {}
    /\ Cardinality(Summarized(archived_history)) = 2
    /\ archived_history # pre.archived_history

(***************************************************************************)
(* sync_time against fix_time on a scene without archive.                  *)
(***************************************************************************)
InitEquiv == InitEdit /\ archived_history = <<>>

NextEquiv ==
    \/ PushForEdit
    \/ SyncTime
    \/ FixTime

SpecEquiv == InitEquiv /\ [][NextEquiv]_vars

\* the durations of all TimePassage messages of h added up, as a clock
SumOfJumps(h) ==
    IF TimePassages(h) = {} THEN "PT0S"
    ELSE duration_isoformat(DaysPassed(h, 1))

\* C39: without an archive sync_time and fix_time leave the same clock on the
\* same history, the sum of the durations of all its TimePassage messages;
\* called one after the other, the second changes nothing.
C39_SyncEqualsFix ==
    /\ []((op \in {"sync_time", "fix_time"} /\ Reconcilable) => ts = SumOfJumps(history))
    /\ [][(op \in {"sync_time", "fix_time"} /\ op' \in {"sync_time", "fix_time"}
            /\ Reconcilable) => ts' = ts]_vars

\* fix_time called right after sync_time on a history with two jumps and
\* another message between them
C39_Witness ==
    /\ op = "fix_time"
    /\ pre.op = "sync_time"
    /\ Len(history) = 3
    /\ history[1].typ = "time" /\ history[2].typ = "character" /\ history[3].typ = "time"
    /\ ts = "P3D"

(***************************************************************************)
(* The retrieval cache (src/talemate/agents/memory/rag.py lines 117-142)   *)
(* and SceneMessage.fingerprint (scene_message.py lines 114-119).          *)
(***************************************************************************)
MaxRagMessages == 3

\* scene_message.py lines 114-119: the first 16 characters of the hash of the
\* content.  The hash is a value computed from the content and nothing else: not
\* the id, the position or the type.  It is taken to tell any two contents
\* of the model apart.
fingerprint(m) == <<"hash", m.name, m.text>>

\* rag.py lines 128, 135: the fingerprint of the last message, 0 on an empty history
HistoryFingerprint(h) == IF h = <<>> THEN <<"0">> ELSE fingerprint(h[Len(h)])

\* None
NoContent == [found |-> FALSE, content |-> <<>>]

\* rag.py lines 131-142: None when caching is off, when nothing is stored under
\* the key or when the stored fingerprint differs from the present one
rag_get_cache(cache, h, enabled) ==
    IF ~enabled THEN NoContent
    ELSE IF cache # NoCache /\ cache.fingerprint = HistoryFingerprint(h)
         THEN [found |-> TRUE, content |-> cache.content]
         ELSE NoContent

\* rag.py lines 125-129
RagSetCache(content) ==
    /\ rerun_pc = "idle"
    /\ rag_cache' = [content |-> content, fingerprint |-> HistoryFingerprint(history)]
    /\ rag_stored' = history
    /\ op' = "rag_set_cache"
    /\ raised' = ""
    /\ pre' = [history |-> history, ts |-> ts]
    /\ calls' = <<>>
    /\ UNCHANGED <<storeVars, lastDirector, rerunVars, ctxVars, loopVars, ret, sent, saveVars>>

\* rag.py lines 131-142
RagGetCache(enabled) ==
    /\ rerun_pc = "idle"
    /\ ret' = rag_get_cache(rag_cache, history, enabled)
    /\ op' = "rag_get_cache"
    /\ raised' = ""
    /\ pre' = [history |-> history, ts |-> ts, enabled |-> enabled]
    /\ calls' = <<>>
    /\ UNCHANGED <<storeVars, lastDirector, rerunVars, ctxVars, loopVars, sent, saveVars,
                   ragVars>>

RagMessages ==
    { CharacterMessage("Bob", "hi", "ai", ""),
      CharacterMessage("Elara", "hi", "ai", "") }

RagContents == { <<"a memory">>, <<>> }

PushRag ==
    /\ message_id < MaxRagMessages
    /\ \E m \in RagMessages : PushHistory(<<m>>)

NextRag ==
    \/ PushRag
    \/ \E id \in 1..MaxRagMessages : DeleteMessage(id)
    \/ \E id \in 1..MaxRagMessages : EditMessage(id, "Bob", "edited")
    \/ \E content \in RagContents : RagSetCache(content)
    \/ \E enabled \in BOOLEAN : RagGetCache(enabled)

SpecRag == Init /\ [][NextRag]_vars

\* C40: rag_get_cache returns the cached content only if the history is the
\* one rag_set_cache stored it for; after a message was appended, edited or
\* deleted it returns None.
C40_CacheOnlyIfUnmutated ==
    (op = "rag_get_cache" /\ ret.found) => history = rag_stored

\* what the code does guarantee: content is returned only with caching on,
\* something stored, and a last message whose content hashes as the last message
\* did when it was stored (an empty history counting as 0 both times)
C40_CacheOnlyIfLastContentSame ==
    (op = "rag_get_cache" /\ ret.found) =>
        /\ pre.enabled
        /\ rag_cache # NoCache
        /\ ret.content = rag_cache.content
        /\ HistoryFingerprint(history) = HistoryFingerprint(rag_stored)

\* content returned although a message other than the last was edited or deleted
C40_StaleContentReturned ==
    /\ op = "rag_get_cache"
    /\ ret.found
    /\ history # rag_stored
    /\ Len(history) >= 1

\* None returned because the last message changed
C40_MutationDetected ==
    /\ op = "rag_get_cache"
    /\ pre.enabled
    /\ rag_cache # NoCache
    /\ ~ret.found

====
